---- MODULE Spec2Model ----
(***************************************************************************)
(* A model of the banking core of cpp-qt-banking-system: BankAccount,      *)
(* SavingAccount, CheckingAccount and CreditCard.                          *)
(*                                                                         *)
(* Money is modelled in whole dollars (integers); for such values the      *)
(* double arithmetic of the source (+, -, comparisons) is exact.  Interest *)
(* rates are annual rates that are multiples of 12, so that rate / 12.0 is *)
(* an integer and balance * (rate / 12.0) is exact as well.                *)
(*                                                                         *)
(* An object is identified by its index in the sequence that holds it      *)
(* (accounts, cards); a std::weak_ptr / std::shared_ptr to an account is   *)
(* that index, 0 for an empty one.                                         *)
(*                                                                         *)
(* The random source (RAND_bytes, RAND_status, std::random_device) and the *)
(* allocator are taken to work: the exceptions the source raises when they *)
(* fail are not modelled.  What they return is a nondeterministic choice.  *)
(* SHA-256 is taken to be free of collisions.                              *)
(*                                                                         *)
(* The database is the environment of ConnectionPool and TransactionGuard: *)
(* whether a connection passes validateConnection, and whether commit,     *)
(* rollback and setAutoCommit raise sql::SQLException, is a nondeterministic*)
(* choice at each call; driver_->connect is taken to succeed.              *)
(***************************************************************************)
EXTENDS Integers, Sequences, FiniteSets, TLC

VARIABLES
    next_account_number_,   \* BankAccount::next_account_number_ (static)
    accounts,               \* every account constructed so far, in construction order
    cards,                  \* every CreditCard constructed so far
    last,                   \* the last call made: operation, receiver, argument, outcome, state before
    issued_numbers_,        \* CardGenerator::issued_numbers_ (static)
    returned,               \* every number CardGenerator::generate has returned
    debitCards,             \* every DebitCard constructed so far
    profiles,               \* every Customers object constructed so far
    customers_,             \* Services::customers_ (0 is a null pointer)
    all_accounts_,          \* Services::all_accounts_ (0 is a null pointer)
    pool,                   \* the ConnectionPool, its clients, the clock and the getConnection call in progress
    guard,                  \* a TransactionGuard and the connection it is given
    store                   \* the MySQL tables, as committed and as the connection sees them

vars == <<next_account_number_, accounts, cards, last, issued_numbers_, returned,
          debitCards, profiles, customers_, all_accounts_, pool, guard, store>>

\* The state outside the accounts and the credit cards
generatorVars == <<issued_numbers_, returned>>
serviceVars == <<profiles, customers_, all_accounts_>>
bankVars == <<next_account_number_, accounts, cards>>
persistenceVars == <<pool, guard, store>>
beyondBank == <<generatorVars, debitCards, serviceVars, persistenceVars>>

\* ------------------------------------------------------------------------
\* Program constants
\* ------------------------------------------------------------------------
FIRST_ACCOUNT_NUMBER == 1000
LOW_BALANCE_THRESHOLD == 500
SAVING_MIN_BALANCE == 500
MAX_MONTHLY_WITHDRAWALS == 6
RESTORED_FEE_WAIVER == 1500

\* ------------------------------------------------------------------------
\* Bounds of the model
\* ------------------------------------------------------------------------
MaxAccounts == 3        \* accounts constructed in the numbering specification
MaxNumberingTx == 1     \* ledger entries made by calls in the numbering specification
MaxTx == 3              \* ledger entries per account in the accounts specification
MaxOverdraftAccounts == 2   \* accounts constructed in the overdraft specification
MaxOverdraftTx == 2     \* ledger entries of all accounts in the overdraft specification
MaxCycleTx == 9         \* ledger entries of the savings account in the cycle specification
MaxCards == 1           \* credit cards constructed in the credit specification
MaxOverpaid == 500      \* how far below zero payments may take a card balance

\* ------------------------------------------------------------------------
\* Transaction (a ledger entry); description and timestamp are not modelled
\* ------------------------------------------------------------------------
Transaction(type, amount, balanceAfter) ==
    [type |-> type, amount |-> amount, balanceAfter |-> balanceAfter]

\* ------------------------------------------------------------------------
\* BankAccount
\* ------------------------------------------------------------------------
\* BankAccount::setLowBalance with the default onLowBalance hook; alerts
\* counts the calls of the hook.
setLowBalance(a) ==
    LET low == a.account_balance_ < LOW_BALANCE_THRESHOLD
    IN  [a EXCEPT !.hasLowBalance_ = low,
                  !.alerts = IF ~a.hasLowBalance_ /\ low THEN @ + 1 ELSE @]

setBalanceInternal(a, newBalance) == [a EXCEPT !.account_balance_ = newBalance]

addTransaction(a, type, amount) ==
    [a EXCEPT !.transactions_ =
        Append(@, Transaction(type, amount, a.account_balance_))]

\* The fields every account object has.  A field a class does not have keeps
\* the value given here and is never read for that class.
BlankAccount(kind, number, ctor) ==
    [kind |-> kind, ctor |-> ctor,
     account_number_ |-> number,
     account_balance_ |-> 0,
     hasLowBalance_ |-> FALSE,
     alerts |-> 0,
     transactions_ |-> << >>,
     min_balance_ |-> 0,
     withdrawal_times_this_month_ |-> 0,
     interest_rate_ |-> 0,
     overdraft_limit_ |-> 0,
     monthly_maintenance_fee_ |-> 0,
     minimum_balance_waiver_ |-> 0,
     has_overdraft_protection_ |-> FALSE,
     overdraft_backup_account_ |-> 0,
     monthly_transaction_count_ |-> 0,
     daily_withdrawal_limit_ |-> 0,
     debit_cards_ |-> << >>,
     credit_cards_ |-> << >>]

\* BankAccount::BankAccount(): the flag is left false whatever the balance
BankAccountDefault(kind, number) == BlankAccount(kind, number, "auto")

\* BankAccount::BankAccount(deposit, withdrawal, account_balance, interest_rate, accountType)
BankAccountFull(kind, number, balance) ==
    setLowBalance([BlankAccount(kind, number, "auto") EXCEPT !.account_balance_ = balance])

\* BankAccount::BankAccount(int, double, const std::string&)
BankAccountRestore(kind, number, balance) ==
    setLowBalance([BlankAccount(kind, number, "restore") EXCEPT !.account_balance_ = balance])

\* BankAccount::applyDeposit; the result is the account and the value returned
applyDeposit(a, amount) ==
    IF amount <= 0 THEN [acct |-> a, res |-> "false"]
    ELSE LET b == [a EXCEPT !.account_balance_ = @ + amount]
             c == [b EXCEPT !.transactions_ =
                      Append(@, Transaction("DEPOSIT", amount, b.account_balance_))]
         IN  [acct |-> setLowBalance(c), res |-> "true"]

\* BankAccount::applyWithdraw (the base implementation)
BaseApplyWithdraw(a, amount) ==
    IF amount <= 0 THEN [acct |-> a, res |-> "invalid_argument"]
    ELSE IF a.account_balance_ < amount THEN [acct |-> a, res |-> "insufficient_funds"]
    ELSE LET b == [a EXCEPT !.account_balance_ = @ - amount]
             c == [b EXCEPT !.transactions_ =
                      Append(@, Transaction("WITHDRAWAL", amount, b.account_balance_))]
         IN  [acct |-> setLowBalance(c), res |-> "true"]

\* ------------------------------------------------------------------------
\* SavingAccount
\* ------------------------------------------------------------------------
SavingBase(a, rate) ==
    [a EXCEPT !.min_balance_ = SAVING_MIN_BALANCE,
              !.withdrawal_times_this_month_ = 0,
              !.interest_rate_ = rate]

\* SavingAccount::SavingAccount()
SavingAccountDefault(number) == SavingBase(BankAccountDefault("SAVING", number), 0)

\* SavingAccount::SavingAccount(double initial_balance, double interest_rate)
SavingAccountNew(number, initial_balance, rate) ==
    LET a == SavingBase(BankAccountDefault("SAVING", number), rate)
    IN  IF initial_balance > 0 THEN applyDeposit(a, initial_balance).acct ELSE a

\* SavingAccount::SavingAccount(int accountNumber, double balance, const std::string&)
SavingAccountRestore(number, balance) ==
    SavingBase(BankAccountRestore("SAVING", number, balance), 0)

\* ------------------------------------------------------------------------
\* CheckingAccount
\* ------------------------------------------------------------------------
\* CheckingAccount::CheckingAccount(overdraft_limit, monthly_fee, fee_waiver_balance,
\*                                  daily_Withdrawal_limit, initial_balance)
CheckingAccountNew(number, overdraft_limit, monthly_fee, fee_waiver_balance, initial_balance) ==
    [BankAccountFull("CHECKING", number, initial_balance) EXCEPT
        !.overdraft_limit_ = overdraft_limit,
        !.monthly_maintenance_fee_ = monthly_fee,
        !.minimum_balance_waiver_ = fee_waiver_balance,
        !.has_overdraft_protection_ = FALSE,
        !.monthly_transaction_count_ = 0]

\* CheckingAccount::CheckingAccount(int id, double balance, const std::string&):
\* monthly_transaction_count_ is not initialised, its value is indeterminate
CheckingAccountRestore(number, balance, count) ==
    [BankAccountRestore("CHECKING", number, balance) EXCEPT
        !.overdraft_limit_ = 0,
        !.monthly_maintenance_fee_ = 0,
        !.minimum_balance_waiver_ = RESTORED_FEE_WAIVER,
        !.has_overdraft_protection_ = FALSE,
        !.monthly_transaction_count_ = count]

\* A withdrawal that skips the minimum-balance test
SavingApplyWithdrawNoMinimum(a, amount) ==
    IF a.withdrawal_times_this_month_ >= MAX_MONTHLY_WITHDRAWALS
        THEN [acct |-> a, res |-> "limit_exceeded"]
    ELSE LET r == BaseApplyWithdraw(a, amount)
         IN  IF r.res = "true"
                THEN [acct |-> [r.acct EXCEPT !.withdrawal_times_this_month_ = @ + 1],
                      res |-> "true"]
                ELSE r

\* A withdrawal whose limit test lets a seventh withdrawal through
SavingApplyWithdrawOffByOne(a, amount) ==
    IF a.account_balance_ - amount < a.min_balance_
        THEN [acct |-> a, res |-> "min_balance"]
    ELSE IF a.withdrawal_times_this_month_ > MAX_MONTHLY_WITHDRAWALS
        THEN [acct |-> a, res |-> "limit_exceeded"]
    ELSE LET r == BaseApplyWithdraw(a, amount)
         IN  IF r.res = "true"
                THEN [acct |-> [r.acct EXCEPT !.withdrawal_times_this_month_ = @ + 1],
                      res |-> "true"]
                ELSE r

\* SavingAccount::applyWithdraw; a result other than "true"/"false" is the
\* exception that leaves the call
SavingApplyWithdraw(a, amount) ==
    IF a.account_balance_ - amount < a.min_balance_
        THEN [acct |-> a, res |-> "min_balance"]
    ELSE IF a.withdrawal_times_this_month_ >= MAX_MONTHLY_WITHDRAWALS
        THEN [acct |-> a, res |-> "limit_exceeded"]
    ELSE LET r == BaseApplyWithdraw(a, amount)
         IN  IF r.res = "true"
                THEN [acct |-> [r.acct EXCEPT !.withdrawal_times_this_month_ = @ + 1],
                      res |-> "true"]
                ELSE r

\* SavingAccount::applyMonthlyInterest and SavingAccount::applyInterest
\* (both read the savings account's own interest_rate_)
SavingApplyInterest(a) ==
    LET interest == a.account_balance_ * (a.interest_rate_ \div 12)
    IN  addTransaction(applyDeposit(a, interest).acct, "INTEREST", interest)

\* SavingAccount::resetMonthlyWithdrawals
resetMonthlyWithdrawals(a) == [a EXCEPT !.withdrawal_times_this_month_ = 0]

\* A tail that records the entry before it sets the balance
CheckingRecordWithdrawEarly(a, newBalance, amount) ==
    LET b == setBalanceInternal(addTransaction(a, "WITHDRAWAL", amount), newBalance)
    IN  setLowBalance([b EXCEPT !.monthly_transaction_count_ = @ + 1])

\* The tail of both successful paths of CheckingAccount::applyWithdraw
CheckingRecordWithdraw(a, newBalance, amount) ==
    LET b == addTransaction(setBalanceInternal(a, newBalance), "WITHDRAWAL", amount)
    IN  setLowBalance([b EXCEPT !.monthly_transaction_count_ = @ + 1])

\* Funds that leave the overdraft limit out
availableWithoutOverdraft(a) == a.account_balance_

\* available = currentBalance + overdraft_limit_ in CheckingAccount::applyWithdraw
available(a) == a.account_balance_ + a.overdraft_limit_

\* A withdrawal that debits the account before it tests the funds
applyWithdrawDebitsFirst(accts, i, amount, pending) ==
    LET a == accts[i]
        debited == [accts EXCEPT ![i] =
                       CheckingRecordWithdraw(a, a.account_balance_ - amount, amount)]
    IN  IF a.kind = "SAVING"
        THEN LET r == SavingApplyWithdraw(a, amount)
             IN  [accts |-> [accts EXCEPT ![i] = r.acct], res |-> r.res]
        ELSE IF amount <= 0 THEN [accts |-> accts, res |-> "false"]
        ELSE [accts |-> debited,
              res |-> IF amount > available(a) THEN "false" ELSE "true"]

\* BankAccount::applyWithdraw as the virtual call on account i resolves it.
\* accts is every account, the result is every account after the call and the
\* outcome.  A CheckingAccount short of funds calls applyWithdraw of its backup
\* account; pending holds the calls that are still on the stack as <<account,
\* amount>>.  A call on an account that is already on the stack with an amount
\* no smaller than before repeats for ever: the recursion does not end and the
\* stack overflows.
RECURSIVE applyWithdraw(_, _, _, _)
applyWithdraw(accts, i, amount, pending) ==
    LET a == accts[i]
    IN  IF a.kind = "SAVING"
        THEN LET r == SavingApplyWithdraw(a, amount)
             IN  [accts |-> [accts EXCEPT ![i] = r.acct], res |-> r.res]
        ELSE IF amount <= 0 THEN [accts |-> accts, res |-> "false"]
        ELSE LET currentBalance == a.account_balance_
             IN  IF amount > available(a)
                 THEN IF ~a.has_overdraft_protection_
                          THEN [accts |-> accts, res |-> "false"]
                      ELSE IF a.overdraft_backup_account_ = 0
                          THEN [accts |-> accts, res |-> "false"]
                      ELSE IF \E p \in pending : p[1] = i /\ amount >= p[2]
                          THEN [accts |-> accts, res |-> "stack_overflow"]
                      ELSE LET neededFromBackup == amount - available(a)
                               r == applyWithdraw(accts, a.overdraft_backup_account_,
                                                  neededFromBackup,
                                                  pending \cup {<<i, amount>>})
                           IN  IF r.res = "true"
                               THEN [accts |-> [r.accts EXCEPT ![i] =
                                        CheckingRecordWithdraw(r.accts[i],
                                            -r.accts[i].overdraft_limit_, amount)],
                                     res |-> "true"]
                               ELSE r
                 ELSE [accts |-> [accts EXCEPT ![i] =
                          CheckingRecordWithdraw(a, currentBalance - amount, amount)],
                       res |-> "true"]

\* CheckingAccount::qualifiesForFeeWaiver
qualifiesForFeeWaiver(a) == a.account_balance_ >= a.minimum_balance_waiver_

\* The fee branch shared by applyMonthlyMaintenanceFee and applyInterest: the
\* base withdrawal, then a FEE entry unless the withdrawal raised
CheckingChargeFee(a) ==
    LET r == BaseApplyWithdraw(a, a.monthly_maintenance_fee_)
    IN  IF r.res = "true"
        THEN [acct |-> addTransaction(r.acct, "FEE", a.monthly_maintenance_fee_),
              res |-> "void"]
        ELSE r

\* CheckingAccount::applyMonthlyMaintenanceFee
applyMonthlyMaintenanceFee(a) ==
    IF ~qualifiesForFeeWaiver(a) THEN CheckingChargeFee(a)
    ELSE [acct |-> a, res |-> "void"]

\* CheckingAccount::applyInterest
CheckingApplyInterest(a) ==
    IF a.account_balance_ > a.minimum_balance_waiver_
    THEN [acct |-> [a EXCEPT !.monthly_maintenance_fee_ = 0], res |-> "void"]
    ELSE CheckingChargeFee(a)

\* CheckingAccount::setAccountBalance
setAccountBalance(a, amount) == setBalanceInternal(a, amount)

\* CheckingAccount::linkOverdraftProtection
linkOverdraftProtection(a, backup) ==
    [a EXCEPT !.overdraft_backup_account_ = backup,
              !.has_overdraft_protection_ = TRUE]

\* CheckingAccount::setOverdraftLimit
setOverdraftLimit(a, limit) ==
    IF limit < 0 THEN [acct |-> a, res |-> "false"]
    ELSE [acct |-> [a EXCEPT !.overdraft_limit_ = limit], res |-> "true"]

\* ------------------------------------------------------------------------
\* State after program start: no object constructed yet
\* ------------------------------------------------------------------------
NoCall == [op |-> "none", acct |-> 0, arg |-> 0, res |-> "void",
           pre |-> << >>, preCards |-> << >>, preDebit |-> << >>,
           preProfiles |-> << >>, preCustomers |-> << >>, preAll |-> << >>,
           preCounter |-> FIRST_ACCOUNT_NUMBER]

\* ConnectionPool before initialize (the members' default values), no client
\* holding a connection, no getConnection call in progress.  pool_ and held
\* give, for each connection, what its last std::shared_ptr does when it is
\* released: "return" (the deleter of createNewConnection, which calls
\* returnConnection) or "delete".  pc is where the getConnection call in
\* progress stands ("idle" when there is none), or what a thread that
\* locked mutex_ twice has made of the pool, or "destroyed"; notified is
\* whether cond_.notify_one() has reached the waiting call
NoPool ==
    [driver_ |-> FALSE, running_ |-> FALSE, poolSize |-> 0, maxWaitMs |-> 0,
     pool_ |-> << >>, currentSize_ |-> 0,
     held |-> << >>,
     pc |-> "idle", timeout_time |-> 0, now |-> 0,
     notified |-> FALSE,
     saturated |-> FALSE, counted |-> FALSE, room |-> FALSE, released |-> FALSE,
     handed |-> FALSE]

\* No TransactionGuard alive; the connection in auto-commit mode, as a new
\* connection is.  autoCommit is the mode of the connection; commits and
\* rollbacks count the commit() and rollback() calls of the connection that
\* succeeded since the guard was constructed, calls the commit() calls of the
\* guard
NoGuard ==
    [alive |-> FALSE, conn_ |-> 0, committed_ |-> FALSE,
     autoCommit |-> TRUE, commits |-> 0, rollbacks |-> 0, calls |-> 0]

\* The tables accounts and transactions: committed is what the database
\* holds, work is what the pooled connection sees, its own uncommitted
\* statements included.  A row of accounts is <<account_number, balance>>, a
\* row of transactions [account_number, type, amount, timestamp] with the
\* type and the timestamp as the strings log binds
NoTables == [accounts |-> {}, transactions |-> << >>]
NoStore == [committed |-> NoTables, work |-> NoTables]

Init ==
    /\ pool = NoPool
    /\ guard = NoGuard
    /\ store = NoStore
    /\ next_account_number_ = FIRST_ACCOUNT_NUMBER
    /\ accounts = << >>
    /\ cards = << >>
    /\ last = NoCall
    /\ issued_numbers_ = {}
    /\ returned = {}
    /\ debitCards = << >>
    /\ profiles = << >>
    /\ customers_ = << >>
    /\ all_accounts_ = << >>

Called(op, i, arg, res) ==
    [op |-> op, acct |-> i, arg |-> arg, res |-> res,
     pre |-> accounts, preCards |-> cards, preDebit |-> debitCards,
     preProfiles |-> profiles, preCustomers |-> customers_, preAll |-> all_accounts_,
     preCounter |-> next_account_number_]

\* ------------------------------------------------------------------------
\* Construction of accounts
\* ------------------------------------------------------------------------
\* account_number_(next_account_number_++)
TakeNumber == next_account_number_

Constructed(a, counter) ==
    /\ accounts' = Append(accounts, a)
    /\ next_account_number_' = counter
    /\ last' = Called("construct", Len(accounts) + 1, a.account_balance_, "void")
    /\ UNCHANGED <<cards, beyondBank>>

NewSavingDefault ==
    Constructed(SavingAccountDefault(TakeNumber), next_account_number_ + 1)

NewSaving(initial_balance, rate) ==
    Constructed(SavingAccountNew(TakeNumber, initial_balance, rate),
                next_account_number_ + 1)

\* A constructor that takes the counter's value without advancing it
NewCheckingKeepsCounter(overdraft_limit, monthly_fee, fee_waiver_balance, initial_balance) ==
    Constructed(CheckingAccountNew(TakeNumber, overdraft_limit, monthly_fee,
                                   fee_waiver_balance, initial_balance),
                next_account_number_)

NewChecking(overdraft_limit, monthly_fee, fee_waiver_balance, initial_balance) ==
    Constructed(CheckingAccountNew(TakeNumber, overdraft_limit, monthly_fee,
                                   fee_waiver_balance, initial_balance),
                next_account_number_ + 1)

RestoreSaving(number, balance) ==
    Constructed(SavingAccountRestore(number, balance), next_account_number_)

RestoreChecking(number, balance, count) ==
    Constructed(CheckingAccountRestore(number, balance, count), next_account_number_)

\* ------------------------------------------------------------------------
\* Calls on an account
\* ------------------------------------------------------------------------
Result(op, i, arg, accts, res) ==
    /\ accounts' = accts
    /\ last' = Called(op, i, arg, res)
    /\ UNCHANGED <<next_account_number_, cards, beyondBank>>

Deposit(i, amount) ==
    LET r == applyDeposit(accounts[i], amount)
    IN  Result("applyDeposit", i, amount, [accounts EXCEPT ![i] = r.acct], r.res)

Withdraw(i, amount) ==
    LET r == applyWithdraw(accounts, i, amount, {})
    IN  Result("applyWithdraw", i, amount, r.accts, r.res)

ApplyInterest(i) ==
    IF accounts[i].kind = "SAVING"
    THEN Result("applyInterest", i, 0,
                [accounts EXCEPT ![i] = SavingApplyInterest(@)], "void")
    ELSE LET r == CheckingApplyInterest(accounts[i])
         IN  Result("applyInterest", i, 0, [accounts EXCEPT ![i] = r.acct], r.res)

ApplyMonthlyInterest(i) ==
    /\ accounts[i].kind = "SAVING"
    /\ Result("applyMonthlyInterest", i, 0,
              [accounts EXCEPT ![i] = SavingApplyInterest(@)], "void")

ApplyMonthlyMaintenanceFee(i) ==
    /\ accounts[i].kind = "CHECKING"
    /\ LET r == applyMonthlyMaintenanceFee(accounts[i])
       IN  Result("applyMonthlyMaintenanceFee", i, 0,
                  [accounts EXCEPT ![i] = r.acct], r.res)

ResetMonthlyWithdrawals(i) ==
    /\ accounts[i].kind = "SAVING"
    /\ Result("resetMonthlyWithdrawals", i, 0,
              [accounts EXCEPT ![i] = resetMonthlyWithdrawals(@)], "void")

SetAccountBalance(i, amount) ==
    /\ accounts[i].kind = "CHECKING"
    /\ Result("setAccountBalance", i, amount,
              [accounts EXCEPT ![i] = setAccountBalance(@, amount)], "void")

LinkOverdraftProtection(i, backup) ==
    /\ accounts[i].kind = "CHECKING"
    /\ Result("linkOverdraftProtection", i, backup,
              [accounts EXCEPT ![i] = linkOverdraftProtection(@, backup)], "void")

SetOverdraftLimit(i, limit) ==
    /\ accounts[i].kind = "CHECKING"
    /\ LET r == setOverdraftLimit(accounts[i], limit)
       IN  Result("setOverdraftLimit", i, limit, [accounts EXCEPT ![i] = r.acct], r.res)

\* ------------------------------------------------------------------------
\* Specification of account numbering: constructions only
\* ------------------------------------------------------------------------
NumberingBalances == {600}
RestoreNumbers == {FIRST_ACCOUNT_NUMBER, FIRST_ACCOUNT_NUMBER + 1}
IndeterminateCounts == {0, 7}

CanConstruct == Len(accounts) < MaxAccounts

RECURSIVE LedgerEntries(_)
LedgerEntries(accts) ==
    IF accts = << >> THEN 0
    ELSE Len(Head(accts).transactions_) + LedgerEntries(Tail(accts))

CanCallNumbering == LedgerEntries(accounts) < MaxNumberingTx

NextNumbering ==
    \/ CanConstruct /\ NewSavingDefault
    \/ CanConstruct /\ \E b \in NumberingBalances : NewSaving(b, 12)
    \/ CanConstruct /\ \E b \in NumberingBalances : NewChecking(0, 10, 1500, b)
    \/ CanConstruct /\ \E n \in RestoreNumbers : RestoreSaving(n, 600)
    \/ CanConstruct /\ \E n \in RestoreNumbers, c \in IndeterminateCounts :
            RestoreChecking(n, 0, c)
    \/ CanCallNumbering /\ \E i \in DOMAIN accounts : Deposit(i, 100)
    \/ CanCallNumbering /\ \E i \in DOMAIN accounts : Withdraw(i, 100)

SpecNumbering == Init /\ [][NextNumbering]_vars

\* ------------------------------------------------------------------------
\* Account numbering
\* ------------------------------------------------------------------------
AutoNumbered(i) == accounts[i].ctor = "auto"
AutoBefore(i) == Cardinality({j \in 1..(i - 1) : AutoNumbered(j)})

\* C1: the accounts built by the auto-numbering constructors carry, in
\* construction order and whatever their subtype, the numbers 1000, 1001, ...,
\* and no call changes the number of an account that exists.
C1_AutoNumbersSequential ==
    /\ \A i \in DOMAIN accounts :
          AutoNumbered(i) =>
              accounts[i].account_number_ = FIRST_ACCOUNT_NUMBER + AutoBefore(i)
    /\ \A i \in DOMAIN last.pre :
          accounts[i].account_number_ = last.pre[i].account_number_

\* Three auto-numbered accounts of both subtypes exist and a call was made on one
C1_Witness ==
    /\ \E i, j, k \in DOMAIN accounts :
          /\ i < j /\ j < k
          /\ AutoNumbered(i) /\ AutoNumbered(j) /\ AutoNumbered(k)
          /\ accounts[i].kind # accounts[k].kind
          /\ accounts[k].account_number_ = FIRST_ACCOUNT_NUMBER + 2
    /\ last.op = "applyDeposit" /\ last.res = "true"

\* C2: no two accounts carry the same account number, restored or not.
C2_NumbersUnique ==
    \A i, j \in DOMAIN accounts :
        i # j => accounts[i].account_number_ # accounts[j].account_number_

\* ------------------------------------------------------------------------
\* Specification of one account's ledger: one account is constructed by any
\* constructor, then called
\* ------------------------------------------------------------------------
LedgerInitialBalances == {-100, 0, 600, 1000}
LedgerRates == {0, 12}
LedgerDeposits == {0, 100, 500}
LedgerWithdrawals == {-5, 40, 90, 150}
LedgerOverrides == {100, 600}
LedgerWaivers == {700}
LedgerFees == {10}

NoAccount == accounts = << >>
CanRecord == accounts # << >> /\ Len(accounts[1].transactions_) < MaxTx

NextLedger ==
    \/ NoAccount /\ NewSavingDefault
    \/ NoAccount /\ \E b \in LedgerInitialBalances, r \in LedgerRates : NewSaving(b, r)
    \/ NoAccount /\ \E b \in LedgerInitialBalances, f \in LedgerFees, w \in LedgerWaivers :
            NewChecking(0, f, w, b)
    \/ NoAccount /\ \E b \in LedgerInitialBalances :
            RestoreSaving(FIRST_ACCOUNT_NUMBER, b)
    \/ NoAccount /\ \E b \in LedgerInitialBalances, c \in IndeterminateCounts :
            RestoreChecking(FIRST_ACCOUNT_NUMBER, b, c)
    \/ CanRecord /\ \E amount \in LedgerDeposits : Deposit(1, amount)
    \/ CanRecord /\ \E amount \in LedgerWithdrawals : Withdraw(1, amount)
    \/ CanRecord /\ ApplyInterest(1)
    \/ CanRecord /\ ApplyMonthlyInterest(1)
    \/ CanRecord /\ ApplyMonthlyMaintenanceFee(1)
    \/ CanRecord /\ ResetMonthlyWithdrawals(1)
    \/ CanRecord /\ \E amount \in LedgerOverrides : SetAccountBalance(1, amount)

SpecLedger == Init /\ [][NextLedger]_vars

\* ------------------------------------------------------------------------
\* The ledger of one account
\* ------------------------------------------------------------------------
\* The receiver of the last call, before and after it
Before == last.pre[last.acct]
After == accounts[last.acct]
CalledOn(op) == last.op = op /\ last.acct \in DOMAIN last.pre

HookCalls == After.alerts - Before.alerts

\* C4: an applyDeposit or applyWithdraw call fires the onLowBalance hook once
\* if it takes the balance from >= 500 to < 500, and not at all otherwise (in
\* particular not when it starts and ends with the balance below 500).
C4_HookOncePerCrossing ==
    (CalledOn("applyDeposit") \/ CalledOn("applyWithdraw"))
    => HookCalls = IF /\ Before.account_balance_ >= LOW_BALANCE_THRESHOLD
                      /\ After.account_balance_ < LOW_BALANCE_THRESHOLD
                   THEN 1 ELSE 0

\* C5: in every state of every account the low-balance flag is true exactly
\* when the balance is below 500.
C5_FlagTracksBalance ==
    \A i \in DOMAIN accounts :
        accounts[i].hasLowBalance_ <=>
            (accounts[i].account_balance_ < LOW_BALANCE_THRESHOLD)

Raised(res) == res \in {"min_balance", "limit_exceeded", "invalid_argument",
                        "insufficient_funds"}

\* C6: SavingAccount::applyWithdraw raises whenever balance - amount is below
\* the minimum balance; a withdrawal that does not succeed leaves balance,
\* ledger and cycle counter as they were; after a successful one the balance
\* is at least the minimum balance (500).
C6_SavingMinimumBalance ==
    (CalledOn("applyWithdraw") /\ Before.kind = "SAVING")
    => /\ Before.min_balance_ = SAVING_MIN_BALANCE
       /\ (Before.account_balance_ - last.arg < Before.min_balance_) => Raised(last.res)
       /\ last.res # "true" =>
             /\ After.account_balance_ = Before.account_balance_
             /\ After.transactions_ = Before.transactions_
             /\ After.withdrawal_times_this_month_ = Before.withdrawal_times_this_month_
       /\ last.res = "true" => After.account_balance_ >= After.min_balance_

\* A savings account holding 600 refused a withdrawal of 150
C6_Witness ==
    /\ CalledOn("applyWithdraw")
    /\ Before.kind = "SAVING"
    /\ Before.account_balance_ = 600
    /\ last.arg = 150
    /\ last.res = "min_balance"
    /\ After = Before

\* ------------------------------------------------------------------------
\* Specification of the savings withdrawal cycle: one savings account with
\* ample funds, withdrawn from and reset
\* ------------------------------------------------------------------------
CycleInitialBalances == {2000}
CycleWithdrawals == {-5, 100, 200, 1600}

CanRecordCycle == accounts # << >> /\ Len(accounts[1].transactions_) < MaxCycleTx

NextCycle ==
    \/ NoAccount /\ \E b \in CycleInitialBalances : NewSaving(b, 0)
    \/ CanRecordCycle /\ \E amount \in CycleWithdrawals : Withdraw(1, amount)
    \/ CanRecordCycle /\ ResetMonthlyWithdrawals(1)

SpecCycle == Init /\ [][NextCycle]_vars

\* A withdrawal of this amount passes the funds tests of SavingAccount::applyWithdraw
FundsSufficient(a, amount) ==
    amount > 0 /\ a.account_balance_ - amount >= a.min_balance_

\* C7: the cycle counter of a SavingAccount is 0 after construction and after
\* resetMonthlyWithdrawals, grows by one with each successful applyWithdraw
\* and with nothing else, and never exceeds 6; with 6 on the counter every
\* applyWithdraw fails, with the limit error when funds are sufficient; with
\* fewer than 6 (so after a reset) a withdrawal with sufficient funds succeeds.
C7_SixWithdrawalsPerCycle ==
    /\ \A i \in DOMAIN accounts :
          accounts[i].kind = "SAVING" =>
              accounts[i].withdrawal_times_this_month_ \in 0..MAX_MONTHLY_WITHDRAWALS
    /\ (last.op = "construct" /\ After.kind = "SAVING")
          => After.withdrawal_times_this_month_ = 0
    /\ CalledOn("resetMonthlyWithdrawals") => After.withdrawal_times_this_month_ = 0
    /\ (CalledOn("applyWithdraw") /\ Before.kind = "SAVING")
          => /\ After.withdrawal_times_this_month_ =
                    Before.withdrawal_times_this_month_
                        + (IF last.res = "true" THEN 1 ELSE 0)
             /\ Before.withdrawal_times_this_month_ = MAX_MONTHLY_WITHDRAWALS
                    => /\ last.res # "true"
                       /\ FundsSufficient(Before, last.arg) => last.res = "limit_exceeded"
             /\ ( /\ Before.withdrawal_times_this_month_ < MAX_MONTHLY_WITHDRAWALS
                  /\ FundsSufficient(Before, last.arg) )
                    => last.res = "true"
    /\ ( /\ last.acct \in DOMAIN last.pre
         /\ Before.kind = "SAVING"
         /\ last.op \notin {"applyWithdraw", "resetMonthlyWithdrawals"} )
          => After.withdrawal_times_this_month_ = Before.withdrawal_times_this_month_

Withdrawals(a) ==
    Cardinality({k \in DOMAIN a.transactions_ : a.transactions_[k].type = "WITHDRAWAL"})

\* A seventh withdrawal succeeded: six had succeeded, the counter was reset
C7_Witness ==
    /\ CalledOn("applyWithdraw")
    /\ Before.kind = "SAVING"
    /\ last.res = "true"
    /\ Withdrawals(Before) = MAX_MONTHLY_WITHDRAWALS
    /\ Before.withdrawal_times_this_month_ = 0

\* The call took the fee branch: the fee was withdrawn and recorded, or the
\* withdrawal raised
FeeCharged == last.res # "void" \/ Len(After.transactions_) > Len(Before.transactions_)

MonthlyCallOnChecking ==
    /\ CalledOn("applyInterest") \/ CalledOn("applyMonthlyMaintenanceFee")
    /\ Before.kind = "CHECKING"

\* C32: applyInterest and applyMonthlyMaintenanceFee of a CheckingAccount
\* charge the fee in the same states: both waive it exactly when
\* qualifiesForFeeWaiver() holds, balance >= threshold
C32_SameFeeDecision ==
    MonthlyCallOnChecking => (FeeCharged <=> ~qualifiesForFeeWaiver(Before))

\* The two agree for every balance other than the threshold itself
C32_SameFeeDecisionOffThreshold ==
    (MonthlyCallOnChecking /\ Before.account_balance_ # Before.minimum_balance_waiver_)
    => (FeeCharged <=> ~qualifiesForFeeWaiver(Before))

\* ------------------------------------------------------------------------
\* Specification of overdraft: checking accounts and their backup accounts,
\* linked, deposited into and withdrawn from
\* ------------------------------------------------------------------------
OverdraftLimits == {50}
OverdraftSavings == {600}
OverdraftWithdrawals == {150, 151}
OverdrawnBalances == {-100}

CanConstructOverdraft == Len(accounts) < MaxOverdraftAccounts
\* the first account is the checking account that is withdrawn from, the
\* others are the accounts it can be linked to
CanConstructBackup == accounts # << >> /\ CanConstructOverdraft
CanRecordOverdraft == LedgerEntries(accounts) < MaxOverdraftTx

NextOverdraft ==
    \/ CanConstructOverdraft /\ \E l \in OverdraftLimits : NewChecking(l, 10, 1500, 100)
    \/ CanConstructBackup /\ \E b \in OverdraftSavings : NewSaving(b, 0)
    \/ CanConstructBackup /\ \E b \in OverdrawnBalances :
            RestoreChecking(next_account_number_ + 1000, b, 7)
    \/ \E i \in DOMAIN accounts, backup \in DOMAIN accounts :
            LinkOverdraftProtection(i, backup)
    \/ CanRecordOverdraft /\ \E i \in DOMAIN accounts : Deposit(i, 100)
    \/ CanRecordOverdraft /\ \E i \in DOMAIN accounts, amount \in OverdraftWithdrawals :
            Withdraw(i, amount)

SpecOverdraft == Init /\ [][NextOverdraft]_vars

Unprotected(a) ==
    a.kind = "CHECKING" /\ ~a.has_overdraft_protection_ /\ a.overdraft_limit_ >= 0

\* With overdraft protection disabled, applyWithdraw(amount > 0) succeeds iff
\* amount <= balance + overdraft limit
WithdrawIffAvailable ==
    (CalledOn("applyWithdraw") /\ Unprotected(Before) /\ last.arg > 0)
    => (last.res = "true" <=>
            last.arg <= Before.account_balance_ + Before.overdraft_limit_)

OwnFundsCover(b, amount) ==
    IF b.kind = "SAVING"
    THEN /\ FundsSufficient(b, amount)
         /\ b.account_balance_ >= amount
         /\ b.withdrawal_times_this_month_ < MAX_MONTHLY_WITHDRAWALS
    ELSE amount > 0 /\ amount <= b.account_balance_ + b.overdraft_limit_

Shortfall == last.arg - (Before.account_balance_ + Before.overdraft_limit_)

\* C9: applyWithdraw(amount) on a CheckingAccount with overdraft protection
\* and a live backup account able to cover the shortfall
\* s = amount - (balance + overdraft limit) > 0 succeeds, leaves this
\* account's balance at -overdraft limit, lowers the backup account's balance
\* by exactly s and appends exactly one entry, WITHDRAWAL of the full amount,
\* to this account's ledger.
C9_BackupCoversShortfall ==
    ( /\ CalledOn("applyWithdraw")
      /\ Before.kind = "CHECKING"
      /\ Before.has_overdraft_protection_
      /\ Before.overdraft_backup_account_ # 0
      /\ Shortfall > 0
      /\ OwnFundsCover(last.pre[Before.overdraft_backup_account_], Shortfall) )
    => LET backup == Before.overdraft_backup_account_
       IN  /\ last.res = "true"
           /\ After.account_balance_ = -Before.overdraft_limit_
           /\ accounts[backup].account_balance_ =
                 last.pre[backup].account_balance_ - Shortfall
           /\ Len(After.transactions_) = Len(Before.transactions_) + 1
           /\ After.transactions_[Len(After.transactions_)].type = "WITHDRAWAL"
           /\ After.transactions_[Len(After.transactions_)].amount = last.arg

\* The same with a backup account other than the account itself
C9_DistinctBackupCoversShortfall ==
    (CalledOn("applyWithdraw") /\ Before.overdraft_backup_account_ # last.acct)
    => C9_BackupCoversShortfall

\* ------------------------------------------------------------------------
\* CreditCard
\* ------------------------------------------------------------------------
\* What the random source gives a new credit card: the number of
\* Card::generateCardNumber("5"), the CVV of Card::generateCVV, the dates of
\* Card::generateExpiryDate
CreditNumbers == {"5000000000000000"}
CvvChoices == {"100"}
CreditExpiryDates == {"MM/YY"}

\* CreditCard::CreditCard(): Card(false, false), no limit, no balance
CreditCardDefault ==
    [credit_limit_ |-> 0, current_balance_ |-> 0, linked_account_ |-> 0,
     isActivated_ |-> FALSE, isExpired_ |-> FALSE,
     card_number_ |-> "NONE", expiration_ |-> "MM/YY", cvv_ |-> "000"]

\* CreditCard::CreditCard(credit_limit, isActivated, linked_account): the base
\* is built by Card("5", true), which is Card(bool, bool) with both true, then
\* setActivated(isActivated); the limit is stored as given, and the number,
\* CVV and expiration are set to generated values
CreditCardNew(credit_limit, isActivated, linked_account, number, cvv, expiration) ==
    [credit_limit_ |-> credit_limit, current_balance_ |-> 0,
     linked_account_ |-> linked_account,
     isActivated_ |-> isActivated, isExpired_ |-> TRUE,
     card_number_ |-> number, expiration_ |-> expiration, cvv_ |-> cvv]

\* CreditCard::charge
charge(c, amount) ==
    IF ~c.isActivated_ THEN [card |-> c, res |-> "false"]
    ELSE IF amount <= 0 THEN [card |-> c, res |-> "false"]
    ELSE IF c.current_balance_ + amount > c.credit_limit_ THEN [card |-> c, res |-> "false"]
    ELSE [card |-> [c EXCEPT !.current_balance_ = @ + amount], res |-> "true"]

\* CreditCard::makePayment
makePayment(c, amount) ==
    IF amount <= 0 THEN [card |-> c, res |-> "false"]
    ELSE [card |-> [c EXCEPT !.current_balance_ = @ - amount], res |-> "true"]

\* Card::setActivated
setActivated(c, isActivate) == [c EXCEPT !.isActivated_ = isActivate]

CardResult(op, k, arg, cs, res) ==
    /\ cards' = cs
    /\ last' = Called(op, k, arg, res)
    /\ UNCHANGED <<next_account_number_, accounts, beyondBank>>

NewCreditCardDefault ==
    CardResult("constructCard", Len(cards) + 1, 0, Append(cards, CreditCardDefault), "void")

NewCreditCardFor(credit_limit, isActivated, linked_account) ==
    \E n \in CreditNumbers, v \in CvvChoices, e \in CreditExpiryDates :
        CardResult("constructCard", Len(cards) + 1, credit_limit,
                   Append(cards, CreditCardNew(credit_limit, isActivated, linked_account,
                                               n, v, e)),
                   "void")

NewCreditCard(credit_limit, isActivated) == NewCreditCardFor(credit_limit, isActivated, 0)

Charge(k, amount) ==
    LET r == charge(cards[k], amount)
    IN  CardResult("charge", k, amount, [cards EXCEPT ![k] = r.card], r.res)

MakePayment(k, amount) ==
    LET r == makePayment(cards[k], amount)
    IN  CardResult("makePayment", k, amount, [cards EXCEPT ![k] = r.card], r.res)

SetActivated(k, isActivate) ==
    CardResult("setActivated", k, 0, [cards EXCEPT ![k] = setActivated(@, isActivate)], "void")

\* ------------------------------------------------------------------------
\* Specification of a credit card whose limit is not changed
\* ------------------------------------------------------------------------
CreditLimits == {-100, 0, 1000}
ChargeAmounts == {-1, 0, 1, 500, 1000}
PaymentAmounts == {0, 1, 500}

CanConstructCard == Len(cards) < MaxCards

NextCredit ==
    \/ CanConstructCard /\ NewCreditCardDefault
    \/ CanConstructCard /\ \E l \in CreditLimits, b \in BOOLEAN : NewCreditCard(l, b)
    \/ \E k \in DOMAIN cards, amount \in ChargeAmounts : Charge(k, amount)
    \/ \E k \in DOMAIN cards, amount \in PaymentAmounts :
            /\ cards[k].current_balance_ - amount >= -MaxOverpaid
            /\ MakePayment(k, amount)
    \/ \E k \in DOMAIN cards, b \in BOOLEAN : SetActivated(k, b)

SpecCredit == Init /\ [][NextCredit]_vars

CardBefore == last.preCards[last.acct]
CardAfter == cards[last.acct]
CardCalled(op) == last.op = op /\ last.acct \in DOMAIN last.preCards

\* C10: charge(a) succeeds iff the card is activated, a > 0 and
\* balance + a <= limit; a rejected charge leaves the balance unchanged; the
\* balance of a card is never above its credit limit.
C10_ChargeWithinLimit ==
    /\ CardCalled("charge") =>
          /\ last.res = "true" <=>
                ( /\ CardBefore.isActivated_
                  /\ last.arg > 0
                  /\ CardBefore.current_balance_ + last.arg <= CardBefore.credit_limit_ )
          /\ last.res # "true" => CardAfter.current_balance_ = CardBefore.current_balance_
    /\ \A k \in DOMAIN cards : cards[k].current_balance_ <= cards[k].credit_limit_

\* The same for the cards built with a limit >= 0
C10_ChargeWithinNonNegativeLimit ==
    (\A k \in DOMAIN cards : cards[k].credit_limit_ >= 0) => C10_ChargeWithinLimit

\* ------------------------------------------------------------------------
\* CardGenerator.  A string is the sequence of its characters, a character
\* the distance of its code from '0': 0..9 are the digits, any other value a
\* character that is no digit
\* ------------------------------------------------------------------------
CARD_NUMBER_LENGTH == 16
MIN_NUMBER_LENGTH == 13
MAX_NUMBER_LENGTH == 19

isdigit(c) == c \in 0..9

\* The loop of CardGenerator::calculateLuhn from the last character to the
\* first: sum of the characters, every second one doubled and its digits added
RECURSIVE LuhnSum(_, _, _)
LuhnSum(number, k, alternate) ==
    IF k = 0 THEN 0
    ELSE LET c == number[k]
             n == IF alternate
                     THEN IF 2 * c > 9 THEN ((2 * c) \div 10) + ((2 * c) % 10) ELSE 2 * c
                     ELSE c
         IN  n + LuhnSum(number, k - 1, ~alternate)

\* CardGenerator::calculateLuhn
calculateLuhn(number) == (10 - (LuhnSum(number, Len(number), FALSE) % 10)) % 10

\* The number CardGenerator::generate builds from the prefix and the random bytes
GeneratedNumber(bin_prefix, rand_bytes) ==
    LET number == bin_prefix \o [i \in DOMAIN rand_bytes |-> rand_bytes[i] % 10]
    IN  Append(number, calculateLuhn(number))

\* A check that looks at the check digit alone
validateCheckDigitOnly(number) ==
    IF Len(number) < MIN_NUMBER_LENGTH \/ Len(number) > MAX_NUMBER_LENGTH THEN FALSE
    ELSE number[Len(number)] = calculateLuhn(SubSeq(number, 1, Len(number) - 1))

\* CardGenerator::validate
validate(number) ==
    IF Len(number) < MIN_NUMBER_LENGTH \/ Len(number) > MAX_NUMBER_LENGTH THEN FALSE
    ELSE /\ number[Len(number)] = calculateLuhn(SubSeq(number, 1, Len(number) - 1))
         /\ number \in issued_numbers_

GeneratorResult(op, arg, res, issued, ret) ==
    /\ issued_numbers_' = issued
    /\ returned' = ret
    /\ last' = Called(op, 0, arg, res)
    /\ UNCHANGED <<bankVars, debitCards, serviceVars, persistenceVars>>

\* CardGenerator::generate: the prefix is refused, or the vector of random
\* bytes cannot be allocated (the prefix is longer than 15 characters), or the
\* number is built, inserted and returned
Generate(bin_prefix) ==
    IF \E i \in DOMAIN bin_prefix : ~isdigit(bin_prefix[i])
        THEN GeneratorResult("generate", bin_prefix, "invalid_argument",
                             issued_numbers_, returned)
    ELSE IF CARD_NUMBER_LENGTH - Len(bin_prefix) - 1 < 0
        THEN GeneratorResult("generate", bin_prefix, "length_error",
                             issued_numbers_, returned)
    ELSE \E rand_bytes \in [1..(CARD_NUMBER_LENGTH - Len(bin_prefix) - 1) -> 0..9] :
            LET number == GeneratedNumber(bin_prefix, rand_bytes)
            IN  GeneratorResult("generate", bin_prefix, "returned",
                                issued_numbers_ \cup {number},
                                returned \cup {number})

Validate(number) ==
    GeneratorResult("validate", number, IF validate(number) THEN "true" ELSE "false",
                    issued_numbers_, returned)

\* ------------------------------------------------------------------------
\* Specification of the card generator: numbers are generated and any string
\* is validated
\* ------------------------------------------------------------------------
MaxIssued == 3

Zeros(n) == [i \in 1..n |-> 0]
GeneratePrefixes ==
    { <<5>> \o Zeros(13), <<4>> \o Zeros(14), <<5>> \o Zeros(15), <<5, 17>> }

\* 16-character strings with every check digit, strings that are too short or
\* too long, and a string with a letter
ValidateInputs ==
    { <<5>> \o Zeros(13) \o <<d, c>> : d \in {0, 7}, c \in 0..9 }
        \cup { <<4>> \o Zeros(14) \o <<c>> : c \in 0..9 }
        \cup { << >>, Zeros(12), Zeros(13), Zeros(19), Zeros(20), <<5, 17>> \o Zeros(14) }

NextGenerator ==
    \/ Cardinality(issued_numbers_) < MaxIssued /\ \E p \in GeneratePrefixes : Generate(p)
    \/ \E n \in ValidateInputs \cup issued_numbers_ : Validate(n)

SpecGenerator == Init /\ [][NextGenerator]_vars

\* C11: CardGenerator::validate(n) is true for every number generate has
\* returned and false for every other string, a 16-digit string with the
\* right check digit included; a validate call returns that value
C11_ValidateIffIssued ==
    /\ \A n \in ValidateInputs \cup returned : validate(n) <=> n \in returned
    /\ last.op = "validate" => (last.res = "true" <=> last.arg \in returned)

\* The Luhn checksum of ISO/IEC 7812-1: counting from the last digit, which
\* is position 1, every digit at an even position is doubled and the digits
\* of the product added; the number passes when the sum is a multiple of 10
LuhnWeighted(d, position) ==
    IF position % 2 = 0 THEN (IF 2 * d > 9 THEN 2 * d - 9 ELSE 2 * d) ELSE d

RECURSIVE StandardLuhnSum(_, _)
StandardLuhnSum(number, k) ==
    IF k = 0 THEN 0
    ELSE LuhnWeighted(number[k], Len(number) - k + 1) + StandardLuhnSum(number, k - 1)

PassesStandardLuhn(number) == StandardLuhnSum(number, Len(number)) % 10 = 0

\* The standard check digit of a payload: the digit that makes the payload
\* with the digit appended pass
StandardCheckDigit(payload) ==
    CHOOSE d \in 0..9 : PassesStandardLuhn(Append(payload, d))

\* C27: the last digit of every number CardGenerator::generate returns is the
\* standard Luhn check digit of the digits before it, and the number passes
\* the standard Luhn checksum
C27_StandardLuhn ==
    \A n \in returned :
        /\ n[Len(n)] = StandardCheckDigit(SubSeq(n, 1, Len(n) - 1))
        /\ PassesStandardLuhn(n)

\* The digit generate appends is the one calculateLuhn gives, and
\* CardGenerator::validate accepts the number
C27_OwnCheckDigit ==
    \A n \in returned :
        /\ n[Len(n)] = calculateLuhn(SubSeq(n, 1, Len(n) - 1))
        /\ validate(n)

\* A never-returned 16-digit number with the right check digit was refused
\* while a returned one was on record
C11_Witness ==
    /\ last.op = "validate"
    /\ last.res = "false"
    /\ Len(last.arg) = CARD_NUMBER_LENGTH
    /\ validateCheckDigitOnly(last.arg)
    /\ returned # {}
    /\ \E n \in returned : validate(n)

\* ------------------------------------------------------------------------
\* Card and DebitCard.  Strings are TLA+ strings; the SHA-256 digest of a
\* string is the one-element sequence that holds it, so that no digest is the
\* empty string << >>
\* ------------------------------------------------------------------------
MAX_FAILED_ATTEMPTS == 3
MIN_PIN_LENGTH == 4
MAX_PIN_LENGTH == 6

\* Card::Card(bool, bool)
CardBase(isActivated, isExpired, expiration) ==
    [card_number_ |-> "NONE",
     expiration_ |-> IF ~isExpired THEN expiration ELSE "00/00",
     cvv_ |-> "000",
     isActivated_ |-> isActivated,
     isExpired_ |-> isExpired]

\* Card::validate
CardValidate(c) ==
    /\ ~(c.card_number_ = "" \/ c.card_number_ = "NONE")
    /\ ~(c.expiration_ = "" \/ c.expiration_ = "NONE")
    /\ ~(c.cvv_ = "" \/ c.cvv_ = "None")

expirationOnly(c) == [c EXCEPT !.expiration_ = "00/00"]

\* Card::markExpired
markExpired(c) ==
    [c EXCEPT !.expiration_ = "00/00", !.isExpired_ = TRUE, !.isActivated_ = FALSE]

\* SecurityHelper::hashPin
hashPin(pin, salt) == <<salt \o pin>>

\* The members DebitCard adds to Card.  pin, streak and struck are not in the
\* source: the PIN the stored hash was made from (if any), the number of
\* verifyPin calls with a wrong PIN since the last one with the right PIN
\* (counted up to MAX_FAILED_ATTEMPTS), and whether that number has reached
\* MAX_FAILED_ATTEMPTS
DebitMembers(c, limit, account) ==
    [card_number_ |-> c.card_number_, expiration_ |-> c.expiration_, cvv_ |-> c.cvv_,
     isActivated_ |-> c.isActivated_, isExpired_ |-> c.isExpired_,
     salt_ |-> "", pin_hash_ |-> << >>,
     daily_withdrawal_limit_ |-> limit,
     failed_attempts_ |-> 0,
     linked_debit_card_account_ |-> account,
     pin |-> << >>, streak |-> 0, struck |-> FALSE]

\* DebitCard::DebitCard()
DebitCardDefault == DebitMembers(CardBase(FALSE, FALSE, "MM/YY"), 0, 0)

\* DebitCard::setPin with the salt RAND_bytes gives
setPin(c, pin, new_salt) ==
    IF Len(pin) < MIN_PIN_LENGTH \/ Len(pin) > MAX_PIN_LENGTH
        THEN [card |-> c, res |-> "false"]
    ELSE [card |-> [c EXCEPT !.salt_ = new_salt,
                             !.pin_hash_ = hashPin(pin, new_salt),
                             !.pin = <<pin>>],
          res |-> "true"]

\* DebitCard::DebitCard(account, daily_withdrawal_limit, pin)
DebitCardNew(account, daily_withdrawal_limit, pin, number, expiration, new_salt) ==
    LET c == [DebitMembers(CardBase(TRUE, FALSE, expiration),
                           daily_withdrawal_limit, account)
                 EXCEPT !.card_number_ = number]
        r == setPin(c, pin, new_salt)
    IN  IF r.res = "true" THEN r.card ELSE setPin(c, "0000", new_salt).card

\* DebitCard::verifyPin
verifyPin(c, attempt) ==
    LET wrong == c.pin # <<attempt>>
        seen == [c EXCEPT !.streak = IF wrong
                                        THEN IF @ < MAX_FAILED_ATTEMPTS THEN @ + 1 ELSE @
                                        ELSE 0]
        told == [seen EXCEPT !.struck = @ \/ seen.streak >= MAX_FAILED_ATTEMPTS]
    IN  IF c.failed_attempts_ >= MAX_FAILED_ATTEMPTS
            THEN [card |-> told, res |-> "false"]
        ELSE IF hashPin(attempt, c.salt_) # c.pin_hash_
            THEN LET failed == [told EXCEPT !.failed_attempts_ = @ + 1]
                 IN  [card |-> IF failed.failed_attempts_ >= MAX_FAILED_ATTEMPTS
                                  THEN [failed EXCEPT !.isActivated_ = FALSE]
                                  ELSE failed,
                      res |-> "false"]
        ELSE [card |-> [told EXCEPT !.failed_attempts_ = 0], res |-> "true"]

\* DebitCard::changePin
changePin(c, old_pin, new_pin, new_salt) ==
    LET v == verifyPin(c, old_pin)
    IN  IF v.res # "true" THEN v ELSE setPin(v.card, new_pin, new_salt)

\* DebitCard::validate
DebitValidate(c) ==
    CardValidate(c) /\ c.pin_hash_ # << >> /\ c.daily_withdrawal_limit_ > 0

DebitResult(op, k, arg, ds, res) ==
    /\ debitCards' = ds
    /\ last' = Called(op, k, arg, res)
    /\ UNCHANGED <<bankVars, generatorVars, serviceVars, persistenceVars>>

NewDebitCardDefault ==
    DebitResult("construct", Len(debitCards) + 1, 0,
                Append(debitCards, DebitCardDefault), "void")

NewDebitCard(account, daily_withdrawal_limit, pin, number, expiration, new_salt) ==
    DebitResult("construct", Len(debitCards) + 1, <<pin>>,
                Append(debitCards, DebitCardNew(account, daily_withdrawal_limit, pin,
                                                number, expiration, new_salt)),
                "void")

VerifyPin(k, attempt) ==
    LET r == verifyPin(debitCards[k], attempt)
    IN  DebitResult("verifyPin", k, <<attempt>>, [debitCards EXCEPT ![k] = r.card], r.res)

SetPin(k, pin, new_salt) ==
    LET r == setPin(debitCards[k], pin, new_salt)
    IN  DebitResult("setPin", k, <<pin>>, [debitCards EXCEPT ![k] = r.card], r.res)

ChangePin(k, old_pin, new_pin, new_salt) ==
    LET r == changePin(debitCards[k], old_pin, new_pin, new_salt)
    IN  DebitResult("changePin", k, <<old_pin, new_pin>>,
                    [debitCards EXCEPT ![k] = r.card], r.res)

SetActivatedDebit(k, isActivate) ==
    DebitResult("setActivated", k, <<isActivate>>,
                [debitCards EXCEPT ![k].isActivated_ = isActivate], "void")

\* ------------------------------------------------------------------------
\* Specification of the PIN of a debit card: a card is constructed, then its
\* PIN is verified, set and changed and the card activated and deactivated
\* ------------------------------------------------------------------------
MaxDebitCards == 1

PinInputs == {"0000", "1234", "123"}
SaltChoices == {"ssssssssssssssss"}
DebitNumbers == {"4000000000000000"}
ExpiryDates == {"MM/YY"}
CanConstructDebit == Len(debitCards) < MaxDebitCards

NextPin ==
    \/ CanConstructDebit /\ NewDebitCardDefault
    \/ CanConstructDebit /\ \E pin \in PinInputs, n \in DebitNumbers, e \in ExpiryDates,
                               salt \in SaltChoices :
            NewDebitCard(0, 500, pin, n, e, salt)
    \/ \E k \in DOMAIN debitCards, attempt \in PinInputs : VerifyPin(k, attempt)
    \/ \E k \in DOMAIN debitCards, pin \in PinInputs, salt \in SaltChoices :
            SetPin(k, pin, salt)
    \/ \E k \in DOMAIN debitCards, old \in PinInputs, new \in PinInputs,
          salt \in SaltChoices : ChangePin(k, old, new, salt)
    \/ \E k \in DOMAIN debitCards, b \in BOOLEAN : SetActivatedDebit(k, b)

SpecPin == Init /\ [][NextPin]_vars

DebitBefore == last.preDebit[last.acct]
DebitAfter == debitCards[last.acct]

\* C12: when a verifyPin call is the third (or a later one) in a row with a
\* wrong PIN the card is not activated after it, and once three in a row
\* have happened every verifyPin call returns false, whatever setPin,
\* changePin and setActivated calls come in between
C12_PinLockout ==
    last.op = "verifyPin" =>
        /\ DebitAfter.streak >= MAX_FAILED_ATTEMPTS => ~DebitAfter.isActivated_
        /\ DebitBefore.struck => last.res = "false"

\* The part of it that the code keeps: the call that takes the failures to
\* three deactivates the card, and from then on no verification succeeds
C12_LockedNeverVerifies ==
    /\ \A k \in DOMAIN debitCards :
            debitCards[k].struck => debitCards[k].failed_attempts_ >= MAX_FAILED_ATTEMPTS
    /\ last.op = "verifyPin" =>
        /\ DebitBefore.struck => last.res = "false"
        /\ (~DebitBefore.struck /\ DebitAfter.struck) => ~DebitAfter.isActivated_

\* ------------------------------------------------------------------------
\* Customers and the registries of Services.  A name is the sequence of its
\* characters, a password a string
\* ------------------------------------------------------------------------
ADULT_AGE == 18

LowerCase == <<"a", "b", "c", "d", "e", "f", "g", "h", "i", "j", "k", "l", "m",
               "n", "o", "p", "q", "r", "s", "t", "u", "v", "w", "x", "y", "z">>
UpperCase == <<"A", "B", "C", "D", "E", "F", "G", "H", "I", "J", "K", "L", "M",
               "N", "O", "P", "Q", "R", "S", "T", "U", "V", "W", "X", "Y", "Z">>

isalpha(c) == \E i \in DOMAIN LowerCase : c = LowerCase[i] \/ c = UpperCase[i]
toupper(c) ==
    IF \E i \in DOMAIN LowerCase : c = LowerCase[i]
        THEN UpperCase[CHOOSE i \in DOMAIN LowerCase : c = LowerCase[i]]
        ELSE c

\* Whether Customers::setName accepts the name
nameAccepted(name) ==
    /\ name # << >>
    /\ \A i \in DOMAIN name : isalpha(name[i]) \/ name[i] = " "
    /\ \E i \in DOMAIN name : isalpha(name[i])

setNameAsGiven(old, name) == IF nameAccepted(name) THEN name ELSE old

\* Customers::setName: the name as stored, the old one when it is refused
setName(old, name) ==
    IF name = << >> THEN old
    ELSE IF \E i \in DOMAIN name : ~isalpha(name[i]) /\ name[i] # " " THEN old
    ELSE IF ~\E i \in DOMAIN name : isalpha(name[i]) THEN old
    ELSE [i \in DOMAIN name |-> IF isalpha(name[i]) THEN toupper(name[i]) ELSE name[i]]

\* Customers::setAge
setAge(old, age) == IF age < 0 THEN old ELSE age

Digits == {"0", "1", "2", "3", "4", "5", "6", "7", "8", "9"}
isdigitChar(c) == c \in Digits
isspace(c) == c = " "

\* std::transform(..., std::toupper)
upper(text) == [i \in DOMAIN text |-> toupper(text[i])]

\* std::regex_match(email, ^[a-zA-Z0-9._%+-]+@[a-zA-Z0-9.-]+\.[a-zA-Z]{2,}$):
\* a local part, the @ at position i, a domain, the dot at position j and at
\* least two letters
localChar(c) == isalpha(c) \/ isdigitChar(c) \/ c \in {".", "_", "%", "+", "-"}
domainChar(c) == isalpha(c) \/ isdigitChar(c) \/ c \in {".", "-"}
emailMatches(email) ==
    \E i \in DOMAIN email : \E j \in DOMAIN email :
        /\ 1 < i /\ i + 1 < j /\ j + 2 <= Len(email)
        /\ email[i] = "@" /\ email[j] = "."
        /\ \A k \in 1 .. i - 1 : localChar(email[k])
        /\ \A k \in i + 1 .. j - 1 : domainChar(email[k])
        /\ \A k \in j + 1 .. Len(email) : isalpha(email[k])

\* Customers::setEmail
setEmail(old, email) == IF ~emailMatches(email) THEN old ELSE upper(email)

\* Customers::setPhoneNumber
clean_number(phone_number) == SelectSeq(phone_number, isdigitChar)
setPhoneNumber(old, phone_number) ==
    IF Len(clean_number(phone_number)) # 10 THEN old ELSE clean_number(phone_number)

\* Customers::setAddress
addressAccepted(address) ==
    ~(address = << >> \/ \A i \in DOMAIN address : isspace(address[i]))
setAddress(old, address) == IF ~addressAccepted(address) THEN old ELSE upper(address)

\* Customers::Customers(name, email, phone_number, age, address); the id is
\* not modelled
CustomersFull(name, email, phone_number, age, address) ==
    [customers_name_ |-> setName(<< >>, name),
     customers_email_ |-> setEmail(<< >>, email),
     customers_phone_number_ |-> setPhoneNumber(<< >>, phone_number),
     customers_age_ |-> setAge(0, age),
     customers_address_ |-> setAddress(<< >>, address),
     account_ |-> << >>]

\* A customer of whom only the name and the age matter: no email, phone
\* number or address that passes
CustomersNew(name, age) == CustomersFull(name, << >>, << >>, age, << >>)

\* Services::isManagerLogin
isManagerLogin(username, password) ==
    username = <<"M", "a", "n", "a", "g", "e", "r">> /\ password = "admin123"

\* The customers Services::authenticate accepts for the name and password, as
\* positions of customers_
Accepted(username, password) ==
    { k \in DOMAIN customers_ :
        /\ customers_[k] # 0
        /\ profiles[customers_[k]].customers_name_ = username
        /\ password = "1234" }

\* A login that binds the customer registered last under the name
authenticateLastMatch(username, password) ==
    IF isManagerLogin(username, password) THEN [role |-> "Manager", outCustomer |-> 0]
    ELSE IF Accepted(username, password) # {}
        THEN [role |-> "Customer",
              outCustomer |-> customers_[CHOOSE k \in Accepted(username, password) :
                                  \A j \in Accepted(username, password) : j <= k]]
    ELSE [role |-> "invalid", outCustomer |-> 0]

\* Services::authenticate: the role returned and the customer bound
authenticate(username, password) ==
    IF isManagerLogin(username, password) THEN [role |-> "Manager", outCustomer |-> 0]
    ELSE IF Accepted(username, password) # {}
        THEN [role |-> "Customer",
              outCustomer |-> customers_[CHOOSE k \in Accepted(username, password) :
                                  \A j \in Accepted(username, password) : k <= j]]
    ELSE [role |-> "invalid", outCustomer |-> 0]

\* The effect of a call on the customers and the registries; the receiver
\* recorded is the customer or account the call is about
ServiceResult(op, i, arg, res, ps, cs, as) ==
    /\ profiles' = ps
    /\ customers_' = cs
    /\ all_accounts_' = as
    /\ last' = Called(op, i, arg, res)
    /\ UNCHANGED <<bankVars, generatorVars, debitCards, persistenceVars>>

NewCustomer(name, age) ==
    ServiceResult("Customers", Len(profiles) + 1, <<name, age>>, "void",
                  Append(profiles, CustomersNew(name, age)), customers_, all_accounts_)

\* Services::addCustomers
AddCustomers(NewCustomers) ==
    ServiceResult("addCustomers", 0, NewCustomers, "true",
                  profiles, customers_ \o NewCustomers, all_accounts_)

\* Services::authenticate; the customer bound is recorded as the receiver
Authenticate(username, password) ==
    LET r == authenticate(username, password)
    IN  ServiceResult("authenticate", r.outCustomer, <<username, password>>, r.role,
                      profiles, customers_, all_accounts_)

\* ------------------------------------------------------------------------
\* Specification of the login: customers are constructed and registered, and
\* anyone logs in
\* ------------------------------------------------------------------------
MaxProfiles == 2
MaxRegistered == 3

NameInputs ==
    { << >>, <<"A", "n", "n">>, <<"A", "N", "N">>, <<"B", "o", "7">>,
      <<"M", "a", "n", "a", "g", "e", "r">> }
LoginNames == NameInputs \cup { <<"M", "A", "N", "A", "G", "E", "R">> }
Passwords == {"1234", "admin123", "12345"}
LoginAges == {30}

\* The lists Services::addCustomers is given: one customer, or a null pointer
CustomerLists == { <<c>> : c \in {0} \cup DOMAIN profiles }

NextLogin ==
    \/ Len(profiles) < MaxProfiles /\ \E n \in NameInputs, a \in LoginAges : NewCustomer(n, a)
    \/ Len(customers_) < MaxRegistered /\ \E l \in CustomerLists : AddCustomers(l)
    \/ \E u \in LoginNames, pw \in Passwords : Authenticate(u, pw)

SpecLogin == Init /\ [][NextLogin]_vars

\* The customers registered under the name, in registration order
RegisteredAs(u) ==
    { k \in DOMAIN customers_ :
        customers_[k] # 0 /\ profiles[customers_[k]].customers_name_ = u }

\* C13: Services::authenticate(u, p) returns Manager with no customer bound
\* iff u is "Manager" and p the manager passphrase; otherwise Customer, bound
\* to the first registered customer whose stored name is u, iff there is one
\* and p is "1234"; otherwise invalid with no customer bound; the customers
\* and the registries are as before the call
C13_Authenticate ==
    last.op = "authenticate" =>
        LET u == last.arg[1]
            p == last.arg[2]
            manager == u = <<"M", "a", "n", "a", "g", "e", "r">> /\ p = "admin123"
            customer == ~manager /\ RegisteredAs(u) # {} /\ p = "1234"
        IN  /\ last.res = "Manager" <=> manager
            /\ last.res = "Customer" <=> customer
            /\ last.res = "invalid" <=> (~manager /\ ~customer)
            /\ last.res = "Customer" =>
                    \E k \in RegisteredAs(u) :
                        /\ \A j \in RegisteredAs(u) : k <= j
                        /\ last.acct = customers_[k]
            /\ last.res # "Customer" => last.acct = 0
            /\ profiles = last.preProfiles
            /\ customers_ = last.preCustomers
            /\ all_accounts_ = last.preAll
            /\ accounts = last.pre

\* A customer login where two customers are registered under the name and a
\* null pointer stands before them
C13_Witness ==
    /\ last.op = "authenticate"
    /\ last.res = "Customer"
    /\ Cardinality({customers_[k] : k \in RegisteredAs(last.arg[1])}) = 2
    /\ customers_[1] = 0

\* ------------------------------------------------------------------------
\* Services: opening, registering and closing accounts
\* ------------------------------------------------------------------------
\* Customers::linkAccount
linkAccountTwice(c, account) == [c EXCEPT !.account_ = Append(Append(@, account), account)]

linkAccount(c, account) == [c EXCEPT !.account_ = Append(@, account)]

\* Customers::addAccount
CustomersAddAccount(c, account) == IF account # 0 THEN linkAccount(c, account) ELSE c

\* Customers::removeAccount: the customer and the value returned
removeAccount(c, account_number) ==
    LET kept == SelectSeq(c.account_,
                    LAMBDA i : accounts[i].account_number_ # account_number)
    IN  [customer |-> [c EXCEPT !.account_ = kept],
         res |-> Len(kept) # Len(c.account_)]

\* The sequence without its k-th element (std::vector::erase)
erase(seq, k) == SubSeq(seq, 1, k - 1) \o SubSeq(seq, k + 1, Len(seq))

\* The entries of all_accounts_ that std::find_if accepts in Services::closeAccount
Found(account_number) ==
    { k \in DOMAIN all_accounts_ :
        all_accounts_[k] # 0 /\ accounts[all_accounts_[k]].account_number_ = account_number }

\* Services::closeAccount: the customers, the registry and the value returned
closeAccount(account_number) ==
    LET registered == { customers_[k] : k \in DOMAIN customers_ } \ {0}
        swept == [c \in DOMAIN profiles |->
                    IF c \in registered
                        THEN removeAccount(profiles[c], account_number).customer
                        ELSE profiles[c]]
        unlinked == \E c \in registered : removeAccount(profiles[c], account_number).res
    IN  IF ~unlinked
            THEN [profiles |-> swept, all_accounts_ |-> all_accounts_, res |-> "false"]
        ELSE IF Found(account_number) = {}
            THEN [profiles |-> swept, all_accounts_ |-> all_accounts_, res |-> "false"]
        ELSE [profiles |-> swept,
              all_accounts_ |-> erase(all_accounts_,
                                    CHOOSE k \in Found(account_number) :
                                        \A j \in Found(account_number) : k <= j),
              res |-> "true"]

CloseAccount(account_number) ==
    LET r == closeAccount(account_number)
    IN  ServiceResult("closeAccount", 0, account_number, r.res,
                      r.profiles, customers_, r.all_accounts_)

\* Services::addAccount
ServicesAddAccount(account) ==
    ServiceResult("addAccount", account, account, "true",
                  profiles, customers_, Append(all_accounts_, account))

\* Customers::addAccount called on a customer
AddAccountToCustomer(c, account) ==
    ServiceResult("Customers::addAccount", c, account, "void",
                  [profiles EXCEPT ![c] = CustomersAddAccount(@, account)],
                  customers_, all_accounts_)

\* CheckingAccount::issueDebitCard on the account at position i of accts: the
\* accounts and the debit cards after it
issueDebitCard(accts, i, number, expiration, new_salt) ==
    [accounts |-> [accts EXCEPT ![i].debit_cards_ = Append(@, Len(debitCards) + 1)],
     debitCards |-> Append(debitCards,
                        DebitCardNew(i, accts[i].daily_withdrawal_limit_, "0000",
                                     number, expiration, new_salt))]

\* Services::openAccount<T>(customer, args...) with the account that
\* std::make_shared<T>(args...) constructs
openAccount(customer, new_account, number, expiration, new_salt) ==
    IF profiles[customer].customers_age_ < ADULT_AGE
        THEN /\ last' = Called("openAccount", customer, new_account.kind, "invalid_argument")
             /\ UNCHANGED <<bankVars, generatorVars, debitCards, serviceVars, persistenceVars>>
    ELSE LET i == Len(accounts) + 1
             made == Append(accounts, new_account)
             issued == IF new_account.kind = "CHECKING"
                          THEN issueDebitCard(made, i, number, expiration, new_salt)
                          ELSE [accounts |-> made, debitCards |-> debitCards]
         IN  /\ accounts' = issued.accounts
             /\ debitCards' = issued.debitCards
             /\ next_account_number_' = next_account_number_ + 1
             /\ all_accounts_' = Append(all_accounts_, i)
             /\ profiles' = [profiles EXCEPT ![customer] = linkAccount(@, i)]
             /\ last' = Called("openAccount", customer, new_account.kind, "returned")
             /\ UNCHANGED <<cards, generatorVars, customers_, persistenceVars>>

OpenSaving(customer, initial_balance, rate) ==
    openAccount(customer, SavingAccountNew(TakeNumber, initial_balance, rate),
                "NONE", "NONE", "")

\* CheckingAccount(overdraft_limit, monthly_fee, fee_waiver_balance,
\* daily_Withdrawal_limit, initial_balance) opened for the customer
OpenChecking(customer, overdraft_limit, monthly_fee, fee_waiver_balance, daily_Withdrawal_limit, initial_balance) ==
    \E n \in DebitNumbers, e \in ExpiryDates, salt \in SaltChoices :
        openAccount(customer,
                    [CheckingAccountNew(TakeNumber, overdraft_limit, monthly_fee,
                                        fee_waiver_balance, initial_balance)
                        EXCEPT !.daily_withdrawal_limit_ = daily_Withdrawal_limit],
                    n, e, salt)

\* ------------------------------------------------------------------------
\* Specification of closing accounts: customers are registered, accounts are
\* opened, registered and linked, and closed by number
\* ------------------------------------------------------------------------
MaxCloseCustomers == 2
MaxOpened == 2
MaxRegistry == 3
MaxLinked == 2

CloseNames == { <<"A", "n", "n">> }

NextClose ==
    \/ Len(profiles) < MaxProfiles /\ \E n \in CloseNames, a \in LoginAges : NewCustomer(n, a)
    \/ Len(customers_) < MaxCloseCustomers /\ \E l \in CustomerLists : AddCustomers(l)
    \/ Len(accounts) < MaxOpened /\ Len(all_accounts_) < MaxRegistry
            /\ \E c \in DOMAIN profiles :
                    Len(profiles[c].account_) < MaxLinked /\ OpenSaving(c, 600, 0)
    \/ Len(all_accounts_) < MaxRegistry
            /\ \E i \in {0} \cup DOMAIN accounts : ServicesAddAccount(i)
    \/ \E c \in DOMAIN profiles, i \in {0} \cup DOMAIN accounts :
            Len(profiles[c].account_) < MaxLinked /\ AddAccountToCustomer(c, i)
    \/ \E i \in DOMAIN accounts : CloseAccount(accounts[i].account_number_)

SpecClose == Init /\ [][NextClose]_vars

\* The registered customers
Registered == { customers_[k] : k \in DOMAIN customers_ } \ {0}

\* C14: after Services::closeAccount(n) has returned true, no registered
\* customer's account list and no entry of the global registry holds an
\* account with number n (so that closing n again returns false)
C14_ClosedAccountGone ==
    (last.op = "closeAccount" /\ last.res = "true") =>
        /\ \A c \in Registered : \A k \in DOMAIN profiles[c].account_ :
                accounts[profiles[c].account_[k]].account_number_ # last.arg
        /\ \A k \in DOMAIN all_accounts_ :
                all_accounts_[k] # 0 => accounts[all_accounts_[k]].account_number_ # last.arg
        /\ closeAccount(last.arg).res = "false"

\* The part of it that the code keeps: the customers' lists are swept, so that
\* closing again returns false, and one entry leaves the registry
C14_ClosedAccountUnlinked ==
    (last.op = "closeAccount" /\ last.res = "true") =>
        /\ \A c \in Registered : \A k \in DOMAIN profiles[c].account_ :
                accounts[profiles[c].account_[k]].account_number_ # last.arg
        /\ Len(all_accounts_) = Len(last.preAll) - 1
        /\ closeAccount(last.arg).res = "false"

\* ------------------------------------------------------------------------
\* Services::processTransaction
\* ------------------------------------------------------------------------
\* The outcomes of applyDeposit / applyWithdraw that are values returned; every
\* other outcome is an exception derived from std::exception
Returned(res) == res \in {"true", "false"}

\* Services::processTransaction on the account at position i: the accounts
\* after it and the value returned
processTransaction(i, type, amount) ==
    LET r == IF type = "DEPOSIT"
                THEN LET d == applyDeposit(accounts[i], amount)
                     IN  [accts |-> [accounts EXCEPT ![i] = d.acct], res |-> d.res]
                ELSE applyWithdraw(accounts, i, amount, {})
    IN  IF Returned(r.res) THEN [accts |-> r.accts, res |-> "true"]
        ELSE IF r.res = "stack_overflow" THEN r
        ELSE [accts |-> r.accts, res |-> "false"]

ProcessTransaction(i, type, amount) ==
    LET r == processTransaction(i, type, amount)
    IN  Result("processTransaction", i, <<type, amount>>, r.accts, r.res)

\* ------------------------------------------------------------------------
\* Specification of processTransaction: one account is constructed, then
\* transactions are processed on it
\* ------------------------------------------------------------------------
TransactionBalances == {600, 1000}
TransactionTypes == {"DEPOSIT", "WITHDRAWAL", "FEE"}
TransactionAmounts == {-5, 0, 100, 700}

NextTransaction ==
    \/ NoAccount /\ \E b \in TransactionBalances : NewSaving(b, 0)
    \/ NoAccount /\ \E b \in TransactionBalances : NewChecking(50, 10, 1500, b)
    \/ CanRecord /\ \E t \in TransactionTypes, amount \in TransactionAmounts :
            ProcessTransaction(1, t, amount)

SpecTransaction == Init /\ [][NextTransaction]_vars

\* The operation Services::processTransaction asks for was applied to the
\* account: the balance moved by the amount and one entry was recorded
Applied ==
    /\ last.arg[2] > 0
    /\ After.account_balance_ =
            Before.account_balance_ +
                (IF last.arg[1] = "DEPOSIT" THEN last.arg[2] ELSE -last.arg[2])
    /\ Len(After.transactions_) = Len(Before.transactions_) + 1

\* C15: Services::processTransaction lets no exception out and returns true
\* only if the deposit or withdrawal was applied; when it was refused, by an
\* exception or by a false return, it returns false and the account is as
\* before
C15_ProcessTransaction ==
    last.op = "processTransaction" =>
        /\ last.res \in {"true", "false"}
        /\ last.res = "true" => Applied
        /\ ~Applied => (last.res = "false" /\ After = Before)

\* The part of it that the code keeps: no exception gets out, and a refused
\* request leaves the account as before
C15_RefusedLeavesAccount ==
    last.op = "processTransaction" =>
        /\ last.res \in {"true", "false"}
        /\ last.res = "false" => After = Before
        /\ ~Applied => After = Before

\* ------------------------------------------------------------------------
\* Services::processMonthlyFees and Services::applyMonthlyInterestToAll
\* ------------------------------------------------------------------------
\* The loop of Services::processMonthlyFees from entry k of all_accounts_ on:
\* the accounts after it and "void", or the exception that ends the loop
RECURSIVE FeesFrom(_, _)
FeesFrom(accts, k) ==
    IF k > Len(all_accounts_) THEN [accts |-> accts, res |-> "void"]
    ELSE LET i == all_accounts_[k]
         IN  IF i = 0 \/ accts[i].kind # "CHECKING" THEN FeesFrom(accts, k + 1)
             ELSE LET r == applyMonthlyMaintenanceFee(accts[i])
                  IN  IF r.res = "void"
                         THEN FeesFrom([accts EXCEPT ![i] = r.acct], k + 1)
                         ELSE [accts |-> [accts EXCEPT ![i] = r.acct], res |-> r.res]

\* The loop of Services::applyMonthlyInterestToAll from entry k on
RECURSIVE InterestFrom(_, _)
InterestFrom(accts, k) ==
    IF k > Len(all_accounts_) THEN accts
    ELSE LET i == all_accounts_[k]
         IN  IF i = 0 \/ accts[i].kind # "SAVING" THEN InterestFrom(accts, k + 1)
             ELSE InterestFrom([accts EXCEPT ![i] = SavingApplyInterest(@)], k + 1)

\* Services::processMonthlyFees
ProcessMonthlyFees ==
    LET r == FeesFrom(accounts, 1)
    IN  Result("processMonthlyFees", 0, 0, r.accts, r.res)

\* Services::applyMonthlyInterestToAll
ApplyMonthlyInterestToAll ==
    Result("applyMonthlyInterestToAll", 0, 0, InterestFrom(accounts, 1), "void")

\* ------------------------------------------------------------------------
\* Specification of the monthly sweeps: accounts are constructed, registered
\* once each, and swept
\* ------------------------------------------------------------------------
MaxSweepAccounts == 2
MaxSweepTx == 3

SweepFees == {0, 10}
SweepCheckingBalances == {5, 100, 1000}
SweepSavingBalances == {600}
SweepRates == {0, 12}

InRegistry(i) == \E k \in DOMAIN all_accounts_ : all_accounts_[k] = i
CanSweep == LedgerEntries(accounts) < MaxSweepTx

NextSweep ==
    \/ Len(accounts) < MaxSweepAccounts
            /\ \E f \in SweepFees, b \in SweepCheckingBalances : NewChecking(0, f, 700, b)
    \/ Len(accounts) < MaxSweepAccounts
            /\ \E b \in SweepSavingBalances, r \in SweepRates : NewSaving(b, r)
    \/ \E i \in {0} \cup DOMAIN accounts :
            /\ ~InRegistry(i)
            /\ ServicesAddAccount(i)
    \/ CanSweep /\ ProcessMonthlyFees
    \/ CanSweep /\ ApplyMonthlyInterestToAll

SpecSweep == Init /\ [][NextSweep]_vars

\* C16: Services::processMonthlyFees applies the maintenance-fee operation
\* once to every checking account of the registry and leaves the others, and
\* applyMonthlyInterestToAll applies interest once to every savings account
\* of the registry and leaves the others, whatever the accounts hold
C16_SweepReachesEveryAccount ==
    /\ last.op = "processMonthlyFees" =>
            \A i \in DOMAIN accounts :
                accounts[i] = IF InRegistry(i) /\ accounts[i].kind = "CHECKING"
                                 THEN applyMonthlyMaintenanceFee(last.pre[i]).acct
                                 ELSE last.pre[i]
    /\ last.op = "applyMonthlyInterestToAll" =>
            \A i \in DOMAIN accounts :
                accounts[i] = IF InRegistry(i) /\ accounts[i].kind = "SAVING"
                                 THEN SavingApplyInterest(last.pre[i])
                                 ELSE last.pre[i]

\* The part of it that the code keeps: the interest sweep reaches every
\* savings account, and the fee sweep every checking account when no fee
\* operation raises
C16_SweepWithoutException ==
    /\ (last.op = "processMonthlyFees" /\ last.res = "void") =>
            \A i \in DOMAIN accounts :
                accounts[i] = IF InRegistry(i) /\ accounts[i].kind = "CHECKING"
                                 THEN applyMonthlyMaintenanceFee(last.pre[i]).acct
                                 ELSE last.pre[i]
    /\ last.op = "applyMonthlyInterestToAll" =>
            \A i \in DOMAIN accounts :
                accounts[i] = IF InRegistry(i) /\ accounts[i].kind = "SAVING"
                                 THEN SavingApplyInterest(last.pre[i])
                                 ELSE last.pre[i]

\* ------------------------------------------------------------------------
\* Specification of opening accounts: customers of both sides of the age
\* limit are constructed and open savings and checking accounts
\* ------------------------------------------------------------------------
MaxOpenCustomers == 2
MaxOpenAccounts == 2

OpenAges == {17, 18}
OpenBalances == {0, 600}
OpenRates == {12}
OpenDailyLimits == {0, 500}

NextOpen ==
    \/ Len(profiles) < MaxOpenCustomers
            /\ \E n \in CloseNames, a \in OpenAges : NewCustomer(n, a)
    \/ Len(accounts) < MaxOpenAccounts
            /\ \E c \in DOMAIN profiles, b \in OpenBalances, r \in OpenRates :
                    OpenSaving(c, b, r)
    \/ Len(accounts) < MaxOpenAccounts
            /\ \E c \in DOMAIN profiles, b \in OpenBalances, l \in OpenDailyLimits :
                    OpenChecking(c, 50, 10, 700, l, b)

SpecOpen == Init /\ [][NextOpen]_vars

\* C17: Services::openAccount<T> for a customer of 18 or more appends the new
\* account once to the registry and once to that customer's list, and a new
\* checking account holds one debit card, activated and linked to it; for a
\* customer under 18 it raises and leaves the registry, the customers' lists
\* and the account-number counter as they were
C17_OpenAccount ==
    last.op = "openAccount" =>
        LET c == last.acct
            i == Len(last.pre) + 1
        IN  IF last.preProfiles[c].customers_age_ >= ADULT_AGE
               THEN /\ last.res = "returned"
                    /\ Len(accounts) = i
                    /\ accounts[i].kind = last.arg
                    /\ all_accounts_ = Append(last.preAll, i)
                    /\ \A k \in DOMAIN last.preAll : last.preAll[k] # i
                    /\ profiles = [last.preProfiles EXCEPT ![c].account_ = Append(@, i)]
                    /\ \A k \in DOMAIN last.preProfiles[c].account_ :
                            last.preProfiles[c].account_[k] # i
                    /\ last.arg = "CHECKING" =>
                            /\ Len(accounts[i].debit_cards_) = 1
                            /\ accounts[i].debit_cards_[1] \in DOMAIN debitCards
                            /\ accounts[i].debit_cards_[1] \notin DOMAIN last.preDebit
                            /\ debitCards[accounts[i].debit_cards_[1]].isActivated_
                            /\ debitCards[accounts[i].debit_cards_[1]].linked_debit_card_account_ = i
               ELSE /\ last.res = "invalid_argument"
                    /\ all_accounts_ = last.preAll
                    /\ profiles = last.preProfiles
                    /\ next_account_number_ = last.preCounter
                    /\ accounts = last.pre

\* A second account, a checking account, has been opened for an adult who
\* holds an account already
C17_Witness ==
    /\ last.op = "openAccount"
    /\ last.res = "returned"
    /\ last.arg = "CHECKING"
    /\ Len(last.preAll) > 0
    /\ Len(last.preProfiles[last.acct].account_) > 0
    /\ \E c \in DOMAIN profiles : profiles[c].customers_age_ < ADULT_AGE

\* ------------------------------------------------------------------------
\* Services::replaceCard
\* ------------------------------------------------------------------------
\* CreditCard::validate
CreditValidate(c) == CardValidate(c) /\ c.credit_limit_ > 0

\* old_card->setActivated(false); old_card->markExpired()
retire(c) == markExpired([c EXCEPT !.isActivated_ = FALSE])

\* Services::replaceCard of the debit card k, with the PIN generateRandomPIN
\* gives and the number, expiration and salt the new card draws
ReplaceDebitCard(k, pin, number, expiration, new_salt) ==
    LET old == debitCards[k]
        retired == [debitCards EXCEPT ![k] = retire(@)]
    IN  IF ~DebitValidate(old)
           THEN DebitResult("replaceCard", k, "DEBIT", debitCards, "nullptr")
        ELSE IF old.linked_debit_card_account_ = 0
           THEN DebitResult("replaceCard", k, "DEBIT", retired, "nullptr")
        ELSE DebitResult("replaceCard", k, "DEBIT",
                         Append(retired,
                                DebitCardNew(old.linked_debit_card_account_,
                                             old.daily_withdrawal_limit_, pin,
                                             number, expiration, new_salt)),
                         "returned")

\* Services::replaceCard of the credit card k
ReplaceCreditCard(k, number, cvv, expiration) ==
    LET old == cards[k]
        retired == [cards EXCEPT ![k] = retire(@)]
    IN  IF ~CreditValidate(old)
           THEN CardResult("replaceCard", k, "CREDIT", cards, "nullptr")
        ELSE IF old.linked_account_ = 0
           THEN CardResult("replaceCard", k, "CREDIT", retired, "nullptr")
        ELSE CardResult("replaceCard", k, "CREDIT",
                        Append(retired,
                               CreditCardNew(old.credit_limit_, TRUE, old.linked_account_,
                                             number, cvv, expiration)),
                        "returned")

\* Services::replaceCard(nullptr)
ReplaceNoCard == DebitResult("replaceCard", 0, "NULL", debitCards, "nullptr")

\* ------------------------------------------------------------------------
\* Specification of replacing cards: accounts and cards of both kinds are
\* constructed, with and without an account, debit cards are deactivated, and
\* cards are replaced
\* ------------------------------------------------------------------------
MaxReplaceAccounts == 1
MaxReplaceCards == 2

RandomPins == {"4821"}
ReplaceDailyLimits == {0, 500}
ReplaceCreditLimits == {0, 1000}

CheckingAccounts == { i \in DOMAIN accounts : accounts[i].kind = "CHECKING" }

NextReplace ==
    \/ Len(accounts) < MaxReplaceAccounts /\ NewChecking(50, 10, 700, 600)
    \/ Len(debitCards) + 1 < MaxReplaceCards /\ NewDebitCardDefault
    \/ Len(debitCards) + 1 < MaxReplaceCards
            /\ \E a \in {0} \cup CheckingAccounts, l \in ReplaceDailyLimits,
                  n \in DebitNumbers, e \in ExpiryDates, salt \in SaltChoices :
                    NewDebitCard(a, l, "0000", n, e, salt)
    \/ Len(cards) + 1 < MaxReplaceCards /\ NewCreditCardDefault
    \/ Len(cards) + 1 < MaxReplaceCards
            /\ \E a \in {0} \cup DOMAIN accounts, l \in ReplaceCreditLimits, b \in BOOLEAN :
                    NewCreditCardFor(l, b, a)
    \/ \E k \in DOMAIN debitCards : SetActivatedDebit(k, FALSE)
    \/ Len(debitCards) < MaxReplaceCards
            /\ \E k \in DOMAIN debitCards, pin \in RandomPins, n \in DebitNumbers,
                  e \in ExpiryDates, salt \in SaltChoices :
                    ReplaceDebitCard(k, pin, n, e, salt)
    \/ Len(cards) < MaxReplaceCards
            /\ \E k \in DOMAIN cards, n \in CreditNumbers, v \in CvvChoices,
                  e \in CreditExpiryDates :
                    ReplaceCreditCard(k, n, v, e)
    \/ ReplaceNoCard

SpecReplace == Init /\ [][NextReplace]_vars

PlaceholderNumber(c) == c.card_number_ \in {"", "NONE"}
PlaceholderExpiration(c) == c.expiration_ \in {"", "NONE", "00/00"}
PlaceholderCvv(c) == c.cvv_ \in {"", "None", "000"}
Placeholder(c) == PlaceholderNumber(c) \/ PlaceholderExpiration(c) \/ PlaceholderCvv(c)

\* validate() is false for every card with an empty or placeholder field
PlaceholderNeverValidates ==
    /\ \A k \in DOMAIN debitCards : Placeholder(debitCards[k]) => ~DebitValidate(debitCards[k])
    /\ \A k \in DOMAIN cards : Placeholder(cards[k]) => ~CreditValidate(cards[k])

\* The state Card::markExpired leaves a card in
MarkedExpired(c) == c.expiration_ = "00/00" /\ c.isExpired_ /\ ~c.isActivated_

\* replaceCard on a card that markExpired() has run on returns null
ReplacedCardIsNotReplacedAgain ==
    /\ ( /\ last.op = "replaceCard" /\ last.arg = "DEBIT"
         /\ MarkedExpired(last.preDebit[last.acct]) ) => last.res = "nullptr"
    /\ ( /\ last.op = "replaceCard" /\ last.arg = "CREDIT"
         /\ MarkedExpired(last.preCards[last.acct]) ) => last.res = "nullptr"

\* C28: validate() of a card is false whenever its number, expiration or CVV
\* is empty or a placeholder (number "NONE"; expiration "NONE" or "00/00";
\* CVV "None" or "000"); a card on which markExpired() has run does not
\* validate, and replaceCard on it returns null
C28_PlaceholdersAndExpiredCards ==
    /\ PlaceholderNeverValidates
    /\ \A k \in DOMAIN debitCards : MarkedExpired(debitCards[k]) => ~DebitValidate(debitCards[k])
    /\ \A k \in DOMAIN cards : MarkedExpired(cards[k]) => ~CreditValidate(cards[k])
    /\ ReplacedCardIsNotReplacedAgain

\* What Card::validate does refuse: an empty number, expiration or CVV, the
\* number "NONE", the expiration "NONE" and the CVV "None"
C28_RefusedPlaceholders ==
    /\ \A k \in DOMAIN debitCards :
          ( \/ debitCards[k].card_number_ \in {"", "NONE"}
            \/ debitCards[k].expiration_ \in {"", "NONE"}
            \/ debitCards[k].cvv_ \in {"", "None"} ) => ~DebitValidate(debitCards[k])
    /\ \A k \in DOMAIN cards :
          ( \/ cards[k].card_number_ \in {"", "NONE"}
            \/ cards[k].expiration_ \in {"", "NONE"}
            \/ cards[k].cvv_ \in {"", "None"} ) => ~CreditValidate(cards[k])

\* ------------------------------------------------------------------------
\* ConnectionPool
\* ------------------------------------------------------------------------
\* currentSize_ and poolSize are size_t: an integer below 0 stands for the
\* value 2^64 less its magnitude that the unsigned subtraction leaves
SizeLess(a, b) == IF (a < 0) = (b < 0) THEN a < b ELSE b < 0
SizeLessEq(a, b) == a = b \/ SizeLess(a, b)

\* What a thread can do that locks mutex_ while it holds it (undefined
\* behaviour): block for ever with the mutex held, or end the process
RelockOutcomes == {"deadlock", "terminated"}

PoolResult(op, arg, res, p) ==
    /\ pool' = p
    /\ last' = Called(op, 0, arg, res)
    /\ UNCHANGED <<bankVars, generatorVars, debitCards, serviceVars, guard, store>>

\* ConnectionPool::returnConnection of a connection that passes
\* validateConnection or not
returnConnection(p, conn, valid) ==
    LET waiting == p.pc \in {"wait", "waitAgain"}
        q == [p EXCEPT !.notified = waiting,
                       !.handed = @ \/ (valid /\ waiting /\ p.now < p.timeout_time)]
    IN  IF valid THEN [q EXCEPT !.pool_ = Append(@, conn)]
        ELSE IF SizeLessEq(q.currentSize_, q.poolSize)
                THEN [q EXCEPT !.pool_ = Append(@, "return")]
                ELSE [q EXCEPT !.currentSize_ = @ - 1]

\* One round of the loop of ConnectionPool::initialize: the new connection is
\* kept if it passes validateConnection; if not, its std::shared_ptr is
\* released, and its deleter calls returnConnection, which validates it again
initializeOne(p, valid, validAgain) ==
    IF valid THEN [p EXCEPT !.pool_ = Append(@, "return"), !.currentSize_ = @ + 1]
    ELSE returnConnection(p, "delete", validAgain)

RECURSIVE initializeFrom(_, _, _)
initializeFrom(p, i, outcomes) ==
    IF i > p.poolSize THEN p
    ELSE initializeFrom(initializeOne(p, outcomes[i][1], outcomes[i][2]), i + 1, outcomes)

\* ConnectionPool::initialize
Initialize(poolSize, maxWaitMs, outcomes) ==
    /\ pool.pc # "destroyed"
    /\ IF pool.driver_ \/ pool.running_
          THEN PoolResult("initialize", poolSize, "logic_error", pool)
       ELSE IF poolSize = 0
          THEN PoolResult("initialize", poolSize, "invalid_argument", pool)
       ELSE LET made == initializeFrom([pool EXCEPT !.poolSize = poolSize,
                                                    !.maxWaitMs = maxWaitMs,
                                                    !.driver_ = TRUE],
                                       1, outcomes)
                started == [made EXCEPT !.running_ = TRUE]
            IN  PoolResult("initialize", poolSize,
                           IF started.pool_ = << >> THEN "runtime_error" ELSE "void",
                           started)

\* One round of the loop of ConnectionPool::getConnection, up to the return
\* or the first wait.  A connection of pool_ that fails validateConnection
\* is released while mutex_ is held: if its deleter is the one that calls
\* returnConnection, the thread locks mutex_ again
getConnectionRound(p, valid, relock) ==
    LET taken == [p EXCEPT !.pool_ = Tail(@)]
        closed == [taken EXCEPT !.currentSize_ = @ - 1]
        q == IF p.pool_ = << >> THEN p ELSE closed
    IN  IF p.pool_ # << >> /\ valid
           THEN [pool |-> [taken EXCEPT !.held = Append(@, Head(p.pool_)), !.pc = "idle"],
                 res |-> "returned"]
        ELSE IF p.pool_ # << >> /\ Head(p.pool_) = "return"
           THEN [pool |-> [closed EXCEPT !.pc = relock], res |-> relock]
        ELSE IF SizeLess(q.currentSize_, q.poolSize)
           THEN [pool |-> [q EXCEPT !.currentSize_ = @ + 1,
                                    !.held = Append(@, "return"),
                                    !.pc = "idle"],
                 res |-> "returned"]
        ELSE [pool |-> [q EXCEPT !.pc = "wait", !.notified = FALSE], res |-> "waiting"]

Running == pool.driver_ /\ pool.pc \notin RelockOutcomes \cup {"destroyed"}

\* ConnectionPool::getConnection is called: the deadline is taken and the
\* first round made.  saturated, counted, room, released and handed are not
\* in the source: whether the pool was of size 1 with its one connection
\* checked out when the call was made, whether currentSize_ was 1 then,
\* whether fewer than poolSize connections were held then, whether a
\* connection was released since, and whether returnConnection has pushed a
\* connection that passed validateConnection while the call waited, before
\* its deadline
GetConnection(valid, relock) ==
    /\ Running
    /\ pool.pc = "idle"
    /\ LET r == getConnectionRound(
                    [pool EXCEPT !.timeout_time = pool.now + pool.maxWaitMs,
                                 !.saturated = ( /\ pool.poolSize = 1
                                                 /\ Len(pool.held) = 1
                                                 /\ pool.pool_ = << >> ),
                                 !.counted = (pool.currentSize_ = 1),
                                 !.room = (Len(pool.held) < pool.poolSize),
                                 !.released = FALSE,
                                 !.handed = FALSE],
                    valid, relock)
       IN  PoolResult("getConnection", pool.now, r.res, r.pool)

\* cond_.wait_until(lock, timeout_time) of the call in progress returns:
\* std::cv_status::timeout, and the call throws, if the deadline is reached;
\* otherwise the second wait_until is entered, and when that one returns
\* before the deadline the loop makes its next round
WaitReturns(valid, relock) ==
    /\ Running
    /\ pool.pc \in {"wait", "waitAgain"}
    /\ IF pool.now >= pool.timeout_time
          THEN PoolResult("getConnection", pool.now, "runtime_error",
                          [pool EXCEPT !.pc = "idle", !.notified = FALSE])
       ELSE IF pool.pc = "wait"
          THEN PoolResult("getConnection", pool.now, "waiting",
                          [pool EXCEPT !.pc = "waitAgain", !.notified = FALSE])
       ELSE LET r == getConnectionRound([pool EXCEPT !.notified = FALSE], valid, relock)
            IN  PoolResult("getConnection", pool.now, r.res, r.pool)

\* A client releases the connection it holds at position k: the deleter of
\* createNewConnection calls returnConnection with a new std::shared_ptr that
\* owns the connection; any other std::shared_ptr deletes the connection
Release(k, valid) ==
    /\ Running
    /\ LET left == [pool EXCEPT !.held = SubSeq(@, 1, k - 1) \o SubSeq(@, k + 1, Len(@)),
                                !.released = TRUE]
       IN  PoolResult("release", k, "void",
                      IF pool.held[k] = "return"
                         THEN returnConnection(left, "delete", valid)
                         ELSE left)

\* The validation loop of ConnectionPool::maintenanceThread over the first n
\* connections of pool_; a connection that fails is replaced, and released
\* while mutex_ is held
RECURSIVE maintainFrom(_, _, _, _)
maintainFrom(p, n, valids, relock) ==
    IF n = 0 \/ p.pc \in RelockOutcomes THEN p
    ELSE LET conn == Head(p.pool_)
             rest == [p EXCEPT !.pool_ = Tail(@)]
         IN  IF valids[n]
                THEN maintainFrom([rest EXCEPT !.pool_ = Append(@, conn)], n - 1, valids, relock)
             ELSE IF conn = "return"
                THEN [rest EXCEPT !.pool_ = Append(@, "return"), !.pc = relock]
             ELSE maintainFrom([rest EXCEPT !.pool_ = Append(@, "return")],
                               n - 1, valids, relock)

\* The refill loop of ConnectionPool::maintenanceThread
RECURSIVE refill(_)
refill(p) ==
    IF SizeLess(p.currentSize_, p.poolSize) /\ Len(p.pool_) < p.poolSize
       THEN refill([p EXCEPT !.pool_ = Append(@, "return"), !.currentSize_ = @ + 1])
       ELSE p

\* One cycle of ConnectionPool::maintenanceThread
Maintenance(valids, relock) ==
    /\ Running
    /\ pool.running_
    /\ LET checked == maintainFrom(pool, Len(pool.pool_), valids, relock)
       IN  PoolResult("maintenanceThread", 0,
                      IF checked.pc \in RelockOutcomes THEN relock ELSE "void",
                      IF checked.pc \in RelockOutcomes THEN checked ELSE refill(checked))

\* The loop of ConnectionPool::~ConnectionPool over pool_: each connection is
\* closed, popped and released while mutex_ is held
RECURSIVE closeFrom(_, _)
closeFrom(p, relock) ==
    IF p.pool_ = << >> THEN [p EXCEPT !.pc = "destroyed"]
    ELSE LET popped == [p EXCEPT !.pool_ = Tail(@), !.currentSize_ = @ - 1]
         IN  IF Head(p.pool_) = "return"
                THEN [popped EXCEPT !.pc = relock]
                ELSE closeFrom(popped, relock)

\* ConnectionPool::~ConnectionPool, when no call is in progress and no client
\* holds a connection
Destructor(relock) ==
    /\ Running
    /\ pool.pc = "idle"
    /\ pool.held = << >>
    /\ LET closed == closeFrom([pool EXCEPT !.running_ = FALSE], relock)
       IN  PoolResult("~ConnectionPool", pool.pool_,
                      IF closed.pc = "destroyed" THEN "void" ELSE relock, closed)

\* std::chrono::steady_clock advances; a call that has been notified returns
\* from its wait before it does
Tick ==
    /\ ~(pool.pc \in {"wait", "waitAgain"} /\ pool.notified)
    /\ PoolResult("tick", 0, "void", [pool EXCEPT !.now = @ + 1])

\* ------------------------------------------------------------------------
\* Specification of the connection pool: the pool is initialized, clients
\* take connections and release them, the maintenance thread runs, and time
\* passes
\* ------------------------------------------------------------------------
MaxTime == 3
MaxHeld == 2

PoolSizes == {0, 1}
WaitChoices == {0, 2}

NextPool ==
    \/ \E n \in PoolSizes, w \in WaitChoices :
            \E outcomes \in [1 .. n -> BOOLEAN \X BOOLEAN] : Initialize(n, w, outcomes)
    \/ \E valid \in BOOLEAN, relock \in RelockOutcomes :
            /\ Len(pool.held) < MaxHeld
            /\ pool.now + pool.maxWaitMs <= MaxTime
            /\ GetConnection(valid, relock)
    \/ \E valid \in BOOLEAN, relock \in RelockOutcomes : WaitReturns(valid, relock)
    \/ \E k \in DOMAIN pool.held, valid \in BOOLEAN : Release(k, valid)
    \/ \E valids \in [1 .. Len(pool.pool_) -> BOOLEAN], relock \in RelockOutcomes :
            Maintenance(valids, relock)
    \/ \E relock \in RelockOutcomes : Destructor(relock)
    \/ pool.now < MaxTime /\ Tick

SpecPool == Init /\ [][NextPool]_vars

\* The clock advances, and a wait_until that can return does
SpecPoolFair ==
    /\ SpecPool
    /\ WF_vars(pool.now < MaxTime /\ Tick)
    /\ WF_vars(\E valid \in BOOLEAN, relock \in RelockOutcomes : WaitReturns(valid, relock))

Waiting == pool.pc \in {"wait", "waitAgain"}

\* C19: a getConnection() call made on a pool of size 1 whose one connection
\* is checked out, and not returned since, does not return a connection: it
\* waits, and fails with the timeout error, and not before maxWaitMs has
\* passed
C19_SaturatedPoolTimesOut ==
    (last.op = "getConnection" /\ pool.saturated /\ ~pool.released)
    => /\ last.res \in {"waiting", "runtime_error"}
       /\ last.res = "runtime_error" => pool.now >= pool.timeout_time
       /\ last.res = "waiting" => Waiting

\* The same of a pool whose currentSize_ counts its one connection
C19_CountedPoolTimesOut ==
    pool.counted => C19_SaturatedPoolTimesOut

\* and the call on such a pool does not wait for ever
C19_CountedPoolWaitEnds ==
    (Waiting /\ pool.saturated /\ ~pool.released /\ pool.counted)
    ~> (~Waiting \/ pool.released)

\* ------------------------------------------------------------------------
\* TransactionGuard
\* ------------------------------------------------------------------------
GuardResult(op, arg, res, g) ==
    /\ guard' = g
    /\ last' = Called(op, g.conn_, arg, res)
    /\ UNCHANGED <<bankVars, generatorVars, debitCards, serviceVars, pool, store>>

\* TransactionGuard::TransactionGuard(conn); setAutoCommit(false) succeeds or
\* raises sql::SQLException, which leaves the constructor
NewTransactionGuard(conn, disabled) ==
    /\ ~guard.alive
    /\ LET fresh == [guard EXCEPT !.conn_ = conn, !.committed_ = FALSE,
                                  !.commits = 0, !.rollbacks = 0, !.calls = 0]
       IN  IF conn = 0
              THEN GuardResult("TransactionGuard", <<disabled>>, "void",
                               [fresh EXCEPT !.alive = TRUE])
           ELSE IF disabled
              THEN GuardResult("TransactionGuard", <<disabled>>, "void",
                               [fresh EXCEPT !.alive = TRUE, !.autoCommit = FALSE])
           ELSE GuardResult("TransactionGuard", <<disabled>>, "SQLException", fresh)

\* TransactionGuard::commit; the commit() of the connection succeeds or raises
\* sql::SQLException
commit(g, succeeds) ==
    IF g.committed_ \/ g.conn_ = 0 THEN g
    ELSE IF succeeds THEN [g EXCEPT !.commits = @ + 1, !.committed_ = TRUE]
    ELSE g

Commit(succeeds) ==
    /\ guard.alive
    /\ GuardResult("commit", <<succeeds>>, "void",
                   [commit(guard, succeeds) EXCEPT !.calls = @ + 1])

\* TransactionGuard::~TransactionGuard; rollback() and setAutoCommit(true)
\* succeed or raise sql::SQLException
destroy(g, rolledBack, restored) ==
    IF ~g.committed_ /\ g.conn_ # 0
       THEN IF ~rolledBack THEN g
            ELSE IF ~restored THEN [g EXCEPT !.rollbacks = @ + 1]
            ELSE [g EXCEPT !.rollbacks = @ + 1, !.autoCommit = TRUE]
       ELSE g

Destroy(rolledBack, restored) ==
    /\ guard.alive
    /\ GuardResult("~TransactionGuard", <<rolledBack, restored>>, "void",
                   [destroy(guard, rolledBack, restored) EXCEPT !.alive = FALSE])

\* ------------------------------------------------------------------------
\* Specification of the transaction guard: guards are constructed on a
\* connection one after the other, committed any number of times, and
\* destroyed, while the database accepts or refuses each request
\* ------------------------------------------------------------------------
MaxCommitCalls == 4

GuardConnections == {0, 1}

NextGuard ==
    \/ \E conn \in GuardConnections, disabled \in BOOLEAN : NewTransactionGuard(conn, disabled)
    \/ guard.calls < MaxCommitCalls /\ \E succeeds \in BOOLEAN : Commit(succeeds)
    \/ \E rolledBack \in BOOLEAN, restored \in BOOLEAN : Destroy(rolledBack, restored)

SpecGuard == Init /\ [][NextGuard]_vars

OnConnection == last.acct # 0

\* C20: in the lifetime of a TransactionGuard on a connection, auto-commit is
\* off once the guard is constructed; the connection is committed at most
\* once; when the guard is gone the connection has been rolled back, and
\* auto-commit is on again, exactly if no commit succeeded; and no commit()
\* and no destructor raises
C20_GuardLifetime ==
    /\ (last.op = "TransactionGuard" /\ guard.alive /\ OnConnection) => ~guard.autoCommit
    /\ guard.commits <= 1
    /\ (last.op = "~TransactionGuard" /\ OnConnection)
       => /\ (guard.rollbacks = 1 /\ guard.autoCommit) <=> (guard.commits = 0)
          /\ ~(guard.commits > 0 /\ guard.rollbacks > 0)
    /\ last.op \in {"commit", "~TransactionGuard"} => last.res = "void"

\* The same, where the rollback and the restoring of auto-commit are those
\* the database accepts
C20_GuardLifetimeWhenAccepted ==
    /\ (last.op = "TransactionGuard" /\ guard.alive /\ OnConnection) => ~guard.autoCommit
    /\ guard.commits <= 1
    /\ (last.op = "~TransactionGuard" /\ OnConnection)
       => /\ (last.arg = <<TRUE, TRUE>>)
                => ((guard.rollbacks = 1 /\ guard.autoCommit) <=> (guard.commits = 0))
          /\ guard.rollbacks > 0 => guard.commits = 0
          /\ ~(guard.commits > 0 /\ guard.rollbacks > 0)
    /\ last.op \in {"commit", "~TransactionGuard"} => last.res = "void"

\* ------------------------------------------------------------------------
\* Customers: construction and setters
\* ------------------------------------------------------------------------
NewCustomerFull(name, email, phone_number, age, address) ==
    ServiceResult("Customers", Len(profiles) + 1, <<name, email, phone_number, age, address>>,
                  "void",
                  Append(profiles, CustomersFull(name, email, phone_number, age, address)),
                  customers_, all_accounts_)

Bool(b) == IF b THEN "true" ELSE "false"

SetName(c, name) ==
    ServiceResult("setName", c, name, Bool(nameAccepted(name)),
                  [profiles EXCEPT ![c].customers_name_ = setName(@, name)],
                  customers_, all_accounts_)

SetEmail(c, email) ==
    ServiceResult("setEmail", c, email, Bool(emailMatches(email)),
                  [profiles EXCEPT ![c].customers_email_ = setEmail(@, email)],
                  customers_, all_accounts_)

SetPhoneNumber(c, phone_number) ==
    ServiceResult("setPhoneNumber", c, phone_number,
                  Bool(Len(clean_number(phone_number)) = 10),
                  [profiles EXCEPT ![c].customers_phone_number_ = setPhoneNumber(@, phone_number)],
                  customers_, all_accounts_)

SetAge(c, age) ==
    ServiceResult("setAge", c, age, Bool(age >= 0),
                  [profiles EXCEPT ![c].customers_age_ = setAge(@, age)],
                  customers_, all_accounts_)

SetAddress(c, address) ==
    ServiceResult("setAddress", c, address, Bool(addressAccepted(address)),
                  [profiles EXCEPT ![c].customers_address_ = setAddress(@, address)],
                  customers_, all_accounts_)

\* ------------------------------------------------------------------------
\* Specification of the fields of a customer: customers are constructed and
\* their setters called, with inputs that pass and inputs that do not
\* ------------------------------------------------------------------------
MaxFieldCustomers == 1

FieldNames == { << >>, <<"A", "n", " ", "b">>, <<"B", "7">>, <<" ", " ">> }
FieldEmails ==
    { <<"a", "@", "b", ".", "c">>, <<"a", " ", "@", "b", ".", "c", "o">>,
      <<"Z", ".", "1", "@", "b", "-", "c", ".", "d", ".", "O", "r", "g">> }
FieldPhones ==
    { <<"(", "5", "5", "5", ")", " ", "1", "2", "3", "-", "4", "5", "6", "7">>,
      <<"5", "5", "5", "1", "2", "3", "4", "5", "6", "7", "8">>,
      <<"5", "5", "5", "a">> }
FieldAges == {-1, 0, 40}
FieldAddresses == { << >>, <<" ", " ">>, <<"1", " ", "m", "a", "i", "n">> }

NextFields ==
    \/ Len(profiles) < MaxFieldCustomers
            /\ \E n \in FieldNames, e \in FieldEmails, ph \in FieldPhones, a \in FieldAges,
                  ad \in FieldAddresses : NewCustomerFull(n, e, ph, a, ad)
    \/ \E c \in DOMAIN profiles, n \in FieldNames : SetName(c, n)
    \/ \E c \in DOMAIN profiles, e \in FieldEmails : SetEmail(c, e)
    \/ \E c \in DOMAIN profiles, ph \in FieldPhones : SetPhoneNumber(c, ph)
    \/ \E c \in DOMAIN profiles, a \in FieldAges : SetAge(c, a)
    \/ \E c \in DOMAIN profiles, ad \in FieldAddresses : SetAddress(c, ad)

SpecFields == Init /\ [][NextFields]_vars

\* What the claim calls normalized: letters in upper case
UpperCased(text) == \A i \in DOMAIN text : \A k \in DOMAIN LowerCase : text[i] # LowerCase[k]

\* What the claim calls passing validation, for each field
ValidName(t) ==
    /\ t # << >>
    /\ \A i \in DOMAIN t : t[i] = " " \/ isalpha(t[i])
    /\ \E i \in DOMAIN t : isalpha(t[i])
ValidEmail(t) ==
    /\ Len(SelectSeq(t, LAMBDA ch : ch = "@")) = 1
    /\ \A i \in DOMAIN t : t[i] # " "
    /\ \E j \in DOMAIN t : t[j] = "." /\ j + 2 <= Len(t) /\ \A k \in j + 1 .. Len(t) : isalpha(t[k])
ValidPhone(t) == Len(t) = 10 /\ \A i \in DOMAIN t : t[i] \in Digits
ValidAddress(t) == \E i \in DOMAIN t : t[i] # " "

Setters == {"setName", "setEmail", "setPhoneNumber", "setAge", "setAddress"}

\* The input of the last setter call is one its field refuses
InvalidInput ==
    \/ last.op = "setName" /\ ~ValidName(last.arg)
    \/ last.op = "setEmail" /\ ~ValidEmail(last.arg)
    \/ last.op = "setPhoneNumber" /\ Len(SelectSeq(last.arg, LAMBDA ch : ch \in Digits)) # 10
    \/ last.op = "setAge" /\ last.arg < 0
    \/ last.op = "setAddress" /\ ~ValidAddress(last.arg)

HealthySizes == {1, 2}

NextPoolHealthy ==
    \/ \E n \in HealthySizes, w \in WaitChoices :
            Initialize(n, w, [i \in 1 .. n |-> <<TRUE, TRUE>>])
    \/ \E relock \in RelockOutcomes :
            /\ Len(pool.held) < MaxHeld
            /\ pool.now + pool.maxWaitMs <= MaxTime
            /\ GetConnection(TRUE, relock)
    \/ \E relock \in RelockOutcomes : WaitReturns(TRUE, relock)
    \/ \E k \in DOMAIN pool.held : Release(k, TRUE)
    \/ \E relock \in RelockOutcomes :
            Maintenance([i \in 1 .. Len(pool.pool_) |-> TRUE], relock)
    \/ pool.now < MaxTime /\ Tick

SpecPoolHealthy == Init /\ [][NextPoolHealthy]_vars

\* C22: a getConnection() call that waits, and to which returnConnection has
\* handed a healthy connection before its deadline, does not fail with the
\* timeout
C22_HandedConnectionIsObtained ==
    (last.op = "getConnection" /\ pool.handed) => last.res # "runtime_error"

\* C23: with a healthy database, a getConnection() call made while fewer
\* than poolSize connections are held does not time out, however many
\* connections were taken and released before
C23_NoTimeoutWithRoom ==
    (last.op = "getConnection" /\ pool.room) => last.res # "runtime_error"

\* C24: currentSize_ is the number of connections in pool_ plus the number
\* of connections checked out, and is at most poolSize
C24_CountMatchesConnections ==
    pool.driver_
    => /\ pool.currentSize_ = Len(pool.pool_) + Len(pool.held)
       /\ pool.currentSize_ <= pool.poolSize

\* C25: no operation of the pool locks mutex_ while it holds it, so none
\* blocks for ever on it and the destructor ends
C25_NoRelock ==
    pool.pc \notin RelockOutcomes

\* Every operation that releases no connection made by createNewConnection
\* while it holds mutex_ ends: what is left to the destructor then is a pool
\* of connections whose pointers delete them
C25_DestructorOfReturnedConnectionsEnds ==
    (last.op = "~ConnectionPool" /\ \A k \in DOMAIN last.arg : last.arg[k] = "delete")
    => pool.pc = "destroyed"

\* ------------------------------------------------------------------------
\* Specification of refused withdrawals: a checking account, the account it
\* is linked to (none, itself, a savings account or another checking
\* account), and withdrawals of amounts that are refused for each reason
\* ------------------------------------------------------------------------
MaxRefusalAccounts == 2   \* accounts constructed in this specification
MaxRefusalTx == 2         \* ledger entries of all accounts in this specification
RefusalWithdrawals == {-5, 0, 150, 800}

NextRefusal ==
    \/ Len(accounts) < MaxRefusalAccounts /\ NewChecking(50, 10, 1500, 100)
    \/ accounts # << >> /\ Len(accounts) < MaxRefusalAccounts /\ NewSaving(600, 0)
    \/ \E i \in DOMAIN accounts, backup \in 0 .. Len(accounts) :
            LinkOverdraftProtection(i, backup)
    \/ LedgerEntries(accounts) < MaxRefusalTx
       /\ \E i \in DOMAIN accounts, amount \in RefusalWithdrawals : Withdraw(i, amount)

SpecRefusal == Init /\ [][NextRefusal]_vars

\* C26: an applyWithdraw of a CheckingAccount that does not succeed (it
\* returns false, or the exception of the backup account leaves it) leaves
\* every member of the account and of every other account, the backup
\* account among them, as it was: balance, ledger, monthly transaction
\* count and low-balance flag
C26_RefusedWithdrawChangesNothing ==
    (CalledOn("applyWithdraw") /\ Before.kind = "CHECKING" /\ last.res # "true")
    => accounts = last.pre

\* The four refusals each happened: amount <= 0; beyond balance + limit
\* without protection; protection with no backup account; a backup account
\* that cannot cover the shortfall
RefusedOnChecking == CalledOn("applyWithdraw") /\ Before.kind = "CHECKING" /\ last.res # "true"

C26_Witness ==
    /\ RefusedOnChecking
    /\ Before.has_overdraft_protection_
    /\ Before.overdraft_backup_account_ \notin {0, last.acct}
    /\ Shortfall > 0
    /\ Before.transactions_ # << >>

C26_WitnessNotPositive == RefusedOnChecking /\ last.arg <= 0

C26_WitnessNoProtection ==
    RefusedOnChecking /\ last.arg > 0 /\ ~Before.has_overdraft_protection_

C26_WitnessNoBackup ==
    /\ RefusedOnChecking /\ last.arg > 0
    /\ Before.has_overdraft_protection_ /\ Before.overdraft_backup_account_ = 0

\* ------------------------------------------------------------------------
\* MySQLAccountData and MySQLTransactionData.  Each call is given what its
\* environment does: whether ConnectionPool::getConnection returns a
\* connection or throws its timeout, and whether the database accepts or
\* refuses (sql::SQLException) each request made of the connection
\* ------------------------------------------------------------------------
StoreResult(op, arg, res, st, g) ==
    /\ store' = st
    /\ guard' = g
    /\ last' = Called(op, 0, [arg EXCEPT !.before = store], res)
    /\ UNCHANGED <<bankVars, generatorVars, debitCards, serviceVars, pool>>

\* INSERT ... ON DUPLICATE KEY UPDATE on the table accounts
upsert(rows, number, balance) ==
    {r \in rows : r[1] # number} \cup {<<number, balance>>}

\* The rows affected that MySQL reports for it: 1 for a new row, 2 for a row
\* that was changed, 0 for a row that already holds the values
upsertAffected(rows, number, balance) ==
    IF <<number, balance>> \in rows THEN 0
    ELSE IF \E r \in rows : r[1] = number THEN 2
    ELSE 1

\* DELETE FROM accounts WHERE account_number = ?
delete(rows, number) == {r \in rows : r[1] # number}
deleteAffected(rows, number) == Cardinality({r \in rows : r[1] = number})

\* TransactionGuard guard(conn.get()) as saveImpl and removeImpl construct it,
\* once setAutoCommit(false) was accepted
localGuard ==
    [guard EXCEPT !.alive = FALSE, !.conn_ = 1, !.committed_ = FALSE, !.autoCommit = FALSE,
                  !.commits = 0, !.rollbacks = 0, !.calls = 0]

\* The end of saveImpl and removeImpl: guard.commit() if success, then the
\* destructor of the guard as the function is left
leave(work, success, commitOk, rolledBack, restored) ==
    LET g1 == IF success THEN commit(localGuard, commitOk) ELSE localGuard
        g2 == destroy(g1, rolledBack, restored)
    IN  [guard |-> g2,
         store |-> IF g1.committed_ THEN [committed |-> work, work |-> work]
                   ELSE IF g2.rollbacks = 1 THEN [committed |-> store.committed,
                                                  work |-> store.committed]
                   ELSE [committed |-> store.committed, work |-> work]]

\* MySQLAccountData::saveImpl
SaveImpl(number, balance, env) ==
    LET arg == [number |-> number, balance |-> balance, env |-> env, before |-> store]
    IN  IF ~env.got THEN StoreResult("saveImpl", arg, "runtime_error", store, guard)
        ELSE IF ~env.disabled
           THEN StoreResult("saveImpl", arg, "SQLException", store,
                            [localGuard EXCEPT !.autoCommit = guard.autoCommit])
        ELSE IF ~env.executed
           THEN LET l == leave(store.work, FALSE, env.commitOk, env.rolledBack, env.restored)
                IN  StoreResult("saveImpl", arg, "DatabaseException", l.store, l.guard)
        ELSE LET affected == upsertAffected(store.work.accounts, number, balance)
                 work == [store.work EXCEPT !.accounts = upsert(@, number, balance)]
                 l == leave(work, affected > 0, env.commitOk, env.rolledBack, env.restored)
             IN  StoreResult("saveImpl", arg, Bool(affected > 0), l.store, l.guard)

\* MySQLAccountData::removeImpl.  The rows of customer_accounts that the first
\* DELETE removes are not kept in the model; the statement is, with its failure
RemoveImpl(number, env) ==
    LET arg == [number |-> number, balance |-> 0, env |-> env, before |-> store]
    IN  IF ~env.got THEN StoreResult("removeImpl", arg, "runtime_error", store, guard)
        ELSE IF ~env.disabled
           THEN StoreResult("removeImpl", arg, "SQLException", store,
                            [localGuard EXCEPT !.autoCommit = guard.autoCommit])
        ELSE IF ~env.unlinked \/ ~env.executed
           THEN LET l == leave(store.work, FALSE, env.commitOk, env.rolledBack, env.restored)
                IN  StoreResult("removeImpl", arg, "DatabaseException", l.store, l.guard)
        ELSE LET affected == deleteAffected(store.work.accounts, number)
                 work == [store.work EXCEPT !.accounts = delete(@, number)]
                 l == leave(work, affected > 0, env.commitOk, env.rolledBack, env.restored)
             IN  StoreResult("removeImpl", arg, Bool(affected > 0), l.store, l.guard)

\* A statement made outside a TransactionGuard: the connection commits it at
\* once when its auto-commit is on
autoCommitted(work) ==
    IF guard.autoCommit THEN [committed |-> work, work |-> work]
    ELSE [committed |-> store.committed, work |-> work]

\* enum Transaction::Type, by position, and the labels of
\* MySQLTransactionData::TransactionTypeToString and Transaction::stringToType
TypeLabels == <<"DEPOSIT", "WITHDRAWAL", "INTEREST", "FEE", "PURCHASE", "UNKNOWN">>

\* MySQLTransactionData::TransactionTypeToString
TransactionTypeToString(type) ==
    IF type \in 1 .. 5 THEN TypeLabels[type] ELSE "UNKNOWN"

\* Transaction::stringToType
stringToType(str) ==
    IF \E k \in 1 .. 5 : TypeLabels[k] = str
    THEN CHOOSE k \in 1 .. 5 : TypeLabels[k] = str
    ELSE Len(TypeLabels)

\* MySQLTransactionData::TimeToSQLDataTime: the text "YYYY-MM-DD HH:MM:SS" of
\* a time_t, kept as <<year, time within the year>>; a year has two units of
\* time here
TimeToSQLDataTime(time) == <<1970 + (time \div 2), time % 2>>

\* res->getInt64("timestamp") on the text of a date: the digits it starts with
getInt64(datetime) == datetime[1]

\* Transaction(accountNumber, type, amount, balanceAfter, description, timestamp)
TransactionOf(accountNumber, type, amount, balanceAfter, description, timestamp) ==
    [accountNumber |-> accountNumber, type |-> type, amount |-> amount,
     balanceAfter |-> balanceAfter, description |-> description, timestamp |-> timestamp]

\* transactions.emplace_back(accountNumber, type, amount, time_t) in
\* getByAccount: four arguments select the constructor above with the time_t as
\* balanceAfter, no description, and the time of the call as timestamp
emplaced(accountNumber, row, now) ==
    TransactionOf(accountNumber, stringToType(row.type), row.amount,
                  getInt64(row.timestamp), "", now)

\* ORDER BY timestamp DESC
later(d, e) == d[1] > e[1] \/ (d[1] = e[1] /\ d[2] >= e[2])

RECURSIVE insertDesc(_, _)
insertDesc(rows, r) ==
    IF rows = << >> THEN <<r>>
    ELSE IF later(r.timestamp, Head(rows).timestamp) THEN <<r>> \o rows
    ELSE <<Head(rows)>> \o insertDesc(Tail(rows), r)

RECURSIVE orderByTimestampDesc(_)
orderByTimestampDesc(rows) ==
    IF rows = << >> THEN << >>
    ELSE insertDesc(orderByTimestampDesc(Tail(rows)), Head(rows))

\* SELECT type, amount, timestamp FROM transactions WHERE account_number = ?
selectByAccount(rows, number) ==
    orderByTimestampDesc(SelectSeq(rows, LAMBDA r : r.account_number = number))

\* MySQLTransactionData::log: getConnection stands before the try block, and
\* the one handler catches sql::SQLException
Log(t, env) ==
    LET arg == [number |-> t.accountNumber, balance |-> t.amount, env |-> env,
                before |-> store, t |-> t]
        row == [account_number |-> t.accountNumber,
                type |-> TransactionTypeToString(t.type),
                amount |-> t.amount,
                timestamp |-> TimeToSQLDataTime(t.timestamp)]
    IN  IF ~env.got THEN StoreResult("log", arg, "runtime_error", store, guard)
        ELSE IF ~env.executed THEN StoreResult("log", arg, "false", store, guard)
        ELSE StoreResult("log", arg, "true",
                         autoCommitted([store.work EXCEPT !.transactions = Append(@, row)]),
                         guard)

\* What a call can do that flows off the end of a function returning
\* std::vector<Transaction> (undefined behaviour): hand back the rows read,
\* hand back an object that was never constructed, or end the process
MissingReturnOutcomes == {"transactions", "indeterminate", "terminated"}

\* MySQLTransactionData::getByAccount at the time now: both handlers return
\* {}; the try block fills transactions and has no return statement after it.
\* list is the vector the caller receives, if it receives one
GetByAccount(number, env, flowsOff, now) ==
    LET arg == [number |-> number, balance |-> 0, env |-> env, before |-> store,
                now |-> now, list |-> << >>]
        rows == selectByAccount(store.work.transactions, number)
        transactions == [k \in DOMAIN rows |-> emplaced(number, rows[k], now)]
    IN  IF ~env.got THEN StoreResult("getByAccount", arg, "runtime_error", store, guard)
        ELSE IF ~env.executed THEN StoreResult("getByAccount", arg, "empty", store, guard)
        ELSE IF flowsOff = "transactions"
           THEN StoreResult("getByAccount", [arg EXCEPT !.list = transactions],
                            flowsOff, store, guard)
        ELSE StoreResult("getByAccount", arg, flowsOff, store, guard)

\* ------------------------------------------------------------------------
\* Specification of the MySQL data classes: accounts are saved and removed,
\* transactions logged and read, while the pool and the database accept or
\* refuse each request
\* ------------------------------------------------------------------------
MaxLogged == 1   \* rows of the table transactions

StoredNumbers == {1000}
StoredBalances == {0, 100}

\* got: getConnection returned a connection; disabled: setAutoCommit(false)
\* accepted; unlinked: the DELETE on customer_accounts accepted; executed: the
\* statement on accounts or transactions accepted; commitOk, rolledBack,
\* restored: commit(), rollback() and setAutoCommit(true) accepted
Environments ==
    [got : BOOLEAN, disabled : BOOLEAN, unlinked : BOOLEAN, executed : BOOLEAN,
     commitOk : BOOLEAN, rolledBack : BOOLEAN, restored : BOOLEAN]

\* The environments of a call that makes no DELETE on customer_accounts, and
\* of a call that makes no use of a TransactionGuard either
SaveEnvironments == {env \in Environments : env.unlinked}
PlainEnvironments ==
    {env \in SaveEnvironments :
        env.disabled /\ env.commitOk /\ env.rolledBack /\ env.restored}

NextStore ==
    \/ \E n \in StoredNumbers, b \in StoredBalances, env \in SaveEnvironments :
            SaveImpl(n, b, env)
    \/ \E n \in StoredNumbers, env \in Environments : RemoveImpl(n, env)
    \/ Len(store.work.transactions) < MaxLogged
       /\ \E n \in StoredNumbers, env \in PlainEnvironments :
               Log(TransactionOf(n, 1, 100, 100, "", 1), env)
    \/ \E n \in StoredNumbers, env \in PlainEnvironments,
          flowsOff \in MissingReturnOutcomes : GetByAccount(n, env, flowsOff, 2)

SpecStore == Init /\ [][NextStore]_vars

AccountDataCalled == last.op \in {"saveImpl", "removeImpl"}

\* the statement on accounts was executed and reported rows
RowsAffected ==
    /\ last.arg.env.got /\ last.arg.env.disabled /\ last.arg.env.executed
    /\ (last.op = "removeImpl" => last.arg.env.unlinked)
    /\ IF last.op = "saveImpl"
          THEN upsertAffected(last.arg.before.work.accounts, last.arg.number,
                              last.arg.balance) > 0
          ELSE deleteAffected(last.arg.before.work.accounts, last.arg.number) > 0

\* C29: saveImpl and removeImpl return true only if a row was affected and
\* the transaction was committed; when they return false or raise, the
\* failing commit included, the database holds what it held before and the
\* connection has no uncommitted statement left unless the database refused
\* the rollback
C29_TrueOnlyIfCommitted ==
    AccountDataCalled
    => /\ last.res = "true" => (RowsAffected /\ guard.commits = 1)
       /\ last.res # "true"
             => /\ store.committed = last.arg.before.committed
                /\ (last.arg.env.got /\ last.arg.env.disabled /\ last.arg.env.rolledBack)
                      => store.work = store.committed
       /\ (RowsAffected /\ ~last.arg.env.commitOk) => last.res # "true"

\* What does hold: the database changes only by a commit, and a call that
\* returns true without one has been rolled back when the database accepts
\* the rollback
C29_ChangedOnlyByCommit ==
    AccountDataCalled
    => /\ store.committed # last.arg.before.committed => guard.commits = 1
       /\ last.res = "true" => RowsAffected
       /\ (last.res = "true" /\ guard.commits = 0 /\ last.arg.env.rolledBack)
             => store.work = store.committed

TransactionDataCalled == last.op \in {"log", "getByAccount"}

\* C30: log and getByAccount raise nothing; when the connection cannot be
\* obtained or the database refuses the statement, log returns false and
\* getByAccount returns the empty list
C30_NeverRaises ==
    TransactionDataCalled
    => /\ last.res \in {"true", "false", "transactions", "empty"}
       /\ (~last.arg.env.got \/ ~last.arg.env.executed)
             => last.res = (IF last.op = "log" THEN "false" ELSE "empty")

\* ------------------------------------------------------------------------
\* Specification of the stored ledger: transactions of every type are logged
\* for two accounts at several times and read back later, the connection
\* being in auto-commit mode
\* ------------------------------------------------------------------------
MaxJournal == 2   \* rows of the table transactions in this specification

JournalNumbers == {1000, 1001}
LoggedTypes == {1, 4, 7}
LoggedTimes == {1, 2, 3}
ReadTimes == {3, 4}

NextJournal ==
    \/ Len(store.work.transactions) < MaxJournal
       /\ \E n \in JournalNumbers, type \in LoggedTypes, time \in LoggedTimes,
             env \in PlainEnvironments :
               Log(TransactionOf(n, type, 100, 100, "", time), env)
    \/ \E n \in JournalNumbers, env \in PlainEnvironments,
          flowsOff \in MissingReturnOutcomes, now \in ReadTimes :
            GetByAccount(n, env, flowsOff, now)

SpecJournal == Init /\ [][NextJournal]_vars

\* C31: when getByAccount hands a list back, every row that log has written
\* for the account is in it as a transaction with the type, the amount and the
\* timestamp it was logged with, and the list is ordered newest first
C31_LoggedIsReadBack ==
    (last.op = "getByAccount" /\ last.res = "transactions")
    => /\ \A k \in DOMAIN store.work.transactions :
             LET row == store.work.transactions[k]
             IN  row.account_number = last.arg.number
                 => \E j \in DOMAIN last.arg.list :
                       /\ TransactionTypeToString(last.arg.list[j].type) = row.type
                       /\ last.arg.list[j].amount = row.amount
                       /\ TimeToSQLDataTime(last.arg.list[j].timestamp) = row.timestamp
       /\ \A i, j \in DOMAIN last.arg.list :
             i < j => last.arg.list[i].timestamp >= last.arg.list[j].timestamp

\* What is read back when the list reaches the caller: one transaction for
\* each row of the account, with its type and its amount, the rows taken
\* newest first
C31_TypeAndAmountReadBack ==
    (last.op = "getByAccount" /\ last.res = "transactions")
    => LET rows == selectByAccount(store.work.transactions, last.arg.number)
       IN  /\ Len(last.arg.list) = Len(rows)
           /\ \A k \in DOMAIN rows :
                 /\ TransactionTypeToString(last.arg.list[k].type) = rows[k].type
                 /\ last.arg.list[k].amount = rows[k].amount
                 /\ k > 1 => later(rows[k - 1].timestamp, rows[k].timestamp)

\* With a connection at hand, a refused statement gives false and the empty
\* list, and log raises nothing
C30_RefusedStatement ==
    (TransactionDataCalled /\ last.arg.env.got)
    => /\ ~last.arg.env.executed
             => last.res = (IF last.op = "log" THEN "false" ELSE "empty")
       /\ last.op = "log" => last.res \in {"true", "false"}

\* ------------------------------------------------------------------------
\* Credit cards attached to a checking account.  credit_cards_ holds the
\* positions in cards of the cards the account owns
\* ------------------------------------------------------------------------
\* CheckingAccount::addCreditCard on the account at position i of accts
addCreditCard(accts, cs, i, creditLimit, isActivated, linked_account, number, cvv, expiration) ==
    IF creditLimit > accts[i].account_balance_ * 2
       THEN [accounts |-> accts, cards |-> cs, res |-> "invalid_argument"]
       ELSE [accounts |-> [accts EXCEPT ![i].credit_cards_ = Append(@, Len(cs) + 1)],
             cards |-> Append(cs, CreditCardNew(creditLimit, isActivated, linked_account,
                                                number, cvv, expiration)),
             res |-> "void"]

\* CreditCard::setCreditLimit
setCreditLimit(c, limit) ==
    IF limit < 0 THEN [card |-> c, res |-> "false"]
    ELSE [card |-> [c EXCEPT !.credit_limit_ = limit], res |-> "true"]

AttachResult(op, i, arg, r, res) ==
    /\ accounts' = r.accounts
    /\ cards' = r.cards
    /\ last' = Called(op, i, arg, res)
    /\ UNCHANGED <<next_account_number_, beyondBank>>

AddCreditCard(i, creditLimit, isActivated, linked_account) ==
    \E n \in CreditNumbers, v \in CvvChoices, e \in CreditExpiryDates :
        LET r == addCreditCard(accounts, cards, i, creditLimit, isActivated,
                               linked_account, n, v, e)
        IN  AttachResult("addCreditCard", i, creditLimit, r, r.res)

\* CheckingAccount::issueCreditCard: addCreditCard with the account itself as
\* the linked account; what addCreditCard throws is caught and logged
IssueCreditCard(i, creditLimit, isActivated) ==
    \E n \in CreditNumbers, v \in CvvChoices, e \in CreditExpiryDates :
        LET r == addCreditCard(accounts, cards, i, creditLimit, isActivated, i, n, v, e)
        IN  AttachResult("issueCreditCard", i, creditLimit, r, "void")

SetCreditLimit(k, limit) ==
    LET r == setCreditLimit(cards[k], limit)
    IN  CardResult("setCreditLimit", k, limit, [cards EXCEPT ![k] = r.card], r.res)

\* ------------------------------------------------------------------------
\* Specification of the issuance of credit cards: one checking account whose
\* balance moves by deposits, cards requested with limits below zero, within
\* twice the balance and above it, limits set afterwards
\* ------------------------------------------------------------------------
MaxAttached == 2
IssueBalances == {0, 100}
IssueDeposits == {100}
RequestedLimits == {-5, 0, 200, 300}
NewLimits == {-1, 0, 50}

CanIssue == Len(cards) < MaxAttached

NextIssue ==
    \/ accounts = << >> /\ \E b \in IssueBalances : NewChecking(0, 0, 0, b)
    \/ \E i \in DOMAIN accounts, amount \in IssueDeposits :
            accounts[i].account_balance_ < 200 /\ Deposit(i, amount)
    \/ \E i \in DOMAIN accounts, l \in RequestedLimits, b \in BOOLEAN :
            CanIssue /\ AddCreditCard(i, l, b, i)
    \/ \E i \in DOMAIN accounts, l \in RequestedLimits, b \in BOOLEAN :
            CanIssue /\ IssueCreditCard(i, l, b)
    \/ \E k \in DOMAIN cards, l \in NewLimits : SetCreditLimit(k, l)

SpecIssue == Init /\ [][NextIssue]_vars

AttachCalled == CalledOn("addCreditCard") \/ CalledOn("issueCreditCard")
CardAttached == Len(After.credit_cards_) > Len(Before.credit_cards_)
AttachedCard == cards[After.credit_cards_[Len(After.credit_cards_)]]

\* C33: a card attached by addCreditCard or issueCreditCard has a credit
\* limit >= 0 and <= twice the balance the account had at issuance; a request
\* above twice the balance attaches no card, and addCreditCard raises
\* invalid_argument for it; setCreditLimit never makes a limit negative.
C33_AttachedLimitWithinBounds ==
    /\ AttachCalled =>
          /\ CardAttached =>
                /\ AttachedCard.credit_limit_ >= 0
                /\ AttachedCard.credit_limit_ <= 2 * Before.account_balance_
          /\ last.arg > 2 * Before.account_balance_ =>
                /\ ~CardAttached
                /\ cards = last.preCards
                /\ last.op = "addCreditCard" => last.res = "invalid_argument"
    /\ CardCalled("setCreditLimit") =>
          (CardAfter.credit_limit_ >= 0 \/ CardAfter.credit_limit_ = CardBefore.credit_limit_)

\* The same without the lower bound of an attached card's limit
C33_AttachedLimitAtMostTwiceBalance ==
    /\ AttachCalled =>
          /\ CardAttached => AttachedCard.credit_limit_ <= 2 * Before.account_balance_
          /\ last.arg > 2 * Before.account_balance_ =>
                /\ ~CardAttached
                /\ cards = last.preCards
                /\ last.op = "addCreditCard" => last.res = "invalid_argument"
    /\ CardCalled("setCreditLimit") =>
          (CardAfter.credit_limit_ >= 0 \/ CardAfter.credit_limit_ = CardBefore.credit_limit_)

\* ------------------------------------------------------------------------
\* A refused closeAccount
\* ------------------------------------------------------------------------
\* C34: whenever Services::closeAccount(n) returns false, every customer's
\* account list and the global registry are as they were before the call.
C34_RefusedCloseChangesNothing ==
    (last.op = "closeAccount" /\ last.res = "false") =>
        /\ profiles = last.preProfiles
        /\ customers_ = last.preCustomers
        /\ all_accounts_ = last.preAll

\* Some registered customer had an account with number n linked before the call
LinkedBefore(n) ==
    \E k \in DOMAIN last.preCustomers :
        /\ last.preCustomers[k] # 0
        /\ \E j \in DOMAIN last.preProfiles[last.preCustomers[k]].account_ :
              accounts[last.preProfiles[last.preCustomers[k]].account_[j]].account_number_ = n

\* The refusal for an account that no registered customer has, and the
\* registry in the other refusal
C34_RefusedUnlinkedChangesNothing ==
    (last.op = "closeAccount" /\ last.res = "false") =>
        /\ all_accounts_ = last.preAll
        /\ customers_ = last.preCustomers
        /\ ~LinkedBefore(last.arg) => profiles = last.preProfiles

\* ------------------------------------------------------------------------
\* The cards a customer lists.  A listed card is <<"DEBIT", k>> for
\* debitCards[k] or <<"CREDIT", k>> for cards[k]
\* ------------------------------------------------------------------------
\* What Customers::getAllCards appends for one account: nothing unless it is a
\* CheckingAccount, else its debit cards and then its credit cards
cardsOfAccount(a) ==
    IF a.kind # "CHECKING" THEN << >>
    ELSE [j \in DOMAIN a.debit_cards_ |-> <<"DEBIT", a.debit_cards_[j]>>]
            \o [j \in DOMAIN a.credit_cards_ |-> <<"CREDIT", a.credit_cards_[j]>>]

RECURSIVE collectCards(_, _)
collectCards(accts, account_) ==
    IF account_ = << >> THEN << >>
    ELSE cardsOfAccount(accts[Head(account_)]) \o collectCards(accts, Tail(account_))

\* Customers::getAllCards
getAllCards(accts, c) == collectCards(accts, c.account_)

Listed(accts, c, card) == \E j \in DOMAIN getAllCards(accts, c) : getAllCards(accts, c)[j] = card

\* ------------------------------------------------------------------------
\* Specification of a customer's cards: customers open checking accounts,
\* which issues a debit card, credit cards are issued on the accounts, and
\* the cards are replaced
\* ------------------------------------------------------------------------
MaxWalletCustomers == 2
MaxWalletAccounts == 2
MaxWalletCards == 3

WalletDailyLimits == {0, 500}
WalletCreditLimits == {0, 1000}

NextWallet ==
    \/ Len(profiles) < MaxWalletCustomers
            /\ \E n \in CloseNames, a \in LoginAges : NewCustomer(n, a)
    \/ Len(accounts) < MaxWalletAccounts
            /\ \E c \in DOMAIN profiles, l \in WalletDailyLimits :
                    OpenChecking(c, 50, 10, 700, l, 600)
    \/ Len(cards) + 1 < MaxWalletCards
            /\ \E i \in DOMAIN accounts, l \in WalletCreditLimits, b \in BOOLEAN :
                    IssueCreditCard(i, l, b)
    \/ Len(debitCards) < MaxWalletCards
            /\ \E k \in DOMAIN debitCards, pin \in RandomPins, n \in DebitNumbers,
                  e \in ExpiryDates, salt \in SaltChoices :
                    ReplaceDebitCard(k, pin, n, e, salt)
    \/ Len(cards) < MaxWalletCards
            /\ \E k \in DOMAIN cards, n \in CreditNumbers, v \in CvvChoices,
                  e \in CreditExpiryDates :
                    ReplaceCreditCard(k, n, v, e)

SpecWallet == Init /\ [][NextWallet]_vars

\* The card replaceCard was given and the card it returned
ReplacedCard == <<last.arg, last.acct>>
Replacement == <<last.arg, IF last.arg = "DEBIT" THEN Len(debitCards) ELSE Len(cards)>>
Replaced == last.op = "replaceCard" /\ last.res = "returned"

\* C35: after replaceCard(old) has returned a card for a card that a
\* customer's getAllCards() lists, that customer's getAllCards() lists the
\* returned card too.
C35_ReplacementIsListed ==
    Replaced =>
        \A c \in DOMAIN profiles :
            Listed(last.pre, last.preProfiles[c], ReplacedCard)
                => Listed(accounts, profiles[c], Replacement)

\* What replaceCard does to the lists: every customer lists after the call
\* the cards listed before it, the replaced one among them
C35_ListsAreAsBefore ==
    last.op = "replaceCard" =>
        \A c \in DOMAIN profiles :
            getAllCards(accounts, profiles[c]) = getAllCards(last.pre, last.preProfiles[c])

\* ------------------------------------------------------------------------
\* Expired cards and payments
\* ------------------------------------------------------------------------
\* The date std::time and std::localtime give while the calls are made
Today == [year |-> 2026, month |-> 11]

\* std::sscanf(expiration_.c_str(), "%2d/%2d", &expiredMonth, &expiredYear) on
\* the two variables set to 0: "MM/YY" stands for the text generateExpiryDate
\* writes (some month, the year three years ahead, modulo 100), "01/20" and
\* "00/00" are read as written, and of any other text of the model ("NONE",
\* "") nothing is converted
scanExpiration(expiration) ==
    CASE expiration = "MM/YY" -> [expiredMonth |-> 1, expiredYear |-> (Today.year + 3) % 100]
      [] expiration = "01/20" -> [expiredMonth |-> 1, expiredYear |-> 20]
      [] OTHER -> [expiredMonth |-> 0, expiredYear |-> 0]

\* Card::isExpired
isExpired(c) ==
    LET s == scanExpiration(c.expiration_)
        expiredYear == s.expiredYear + 2000
    IN  \/ expiredYear < Today.year
        \/ expiredYear = Today.year /\ s.expiredMonth < Today.month

\* Card::setExpiration
setExpiration(c, expiration) == [c EXCEPT !.expiration_ = expiration]

\* DebitCard::processPayment of the card c: the accounts and the value
\* returned, or the exception applyWithdraw raises
processPayment(accts, c, amount) ==
    IF ~c.isActivated_ THEN [accts |-> accts, res |-> "false"]
    ELSE IF c.linked_debit_card_account_ = 0 THEN [accts |-> accts, res |-> "false"]
    ELSE IF amount > accts[c.linked_debit_card_account_].account_balance_
        THEN [accts |-> accts, res |-> "false"]
    ELSE applyWithdraw(accts, c.linked_debit_card_account_, amount, {})

\* CreditCard::processPayment
ProcessPaymentCredit(k, amount) ==
    LET r == charge(cards[k], amount)
    IN  CardResult("processPayment", k, amount, [cards EXCEPT ![k] = r.card], r.res)

ProcessPaymentDebit(k, amount) ==
    LET r == processPayment(accounts, debitCards[k], amount)
    IN  /\ accounts' = r.accts
        /\ last' = Called("DebitCard::processPayment", k, amount, r.res)
        /\ UNCHANGED <<next_account_number_, cards, beyondBank>>

MarkExpired(k) ==
    CardResult("markExpired", k, 0, [cards EXCEPT ![k] = markExpired(@)], "void")

MarkExpiredDebit(k) ==
    DebitResult("markExpired", k, 0, [debitCards EXCEPT ![k] = markExpired(@)], "void")

SetExpiration(k, expiration) ==
    CardResult("setExpiration", k, 0, [cards EXCEPT ![k] = setExpiration(@, expiration)], "void")

SetExpirationDebit(k, expiration) ==
    DebitResult("setExpiration", k, 0,
                [debitCards EXCEPT ![k] = setExpiration(@, expiration)], "void")

\* ------------------------------------------------------------------------
\* Specification of payments by cards that expire: one checking account, a
\* credit card and a debit card on it, which are given a date, marked
\* expired, activated and deactivated, and pay
\* ------------------------------------------------------------------------
MaxExpiryCards == 1
ExpirySettings == {"01/20", "MM/YY"}
ExpiryPayments == {0, 300}

NextExpiry ==
    \/ accounts = << >> /\ NewChecking(0, 0, 0, 600)
    \/ Len(cards) < MaxExpiryCards
            /\ \E a \in DOMAIN accounts, b \in BOOLEAN : NewCreditCardFor(1000, b, a)
    \/ Len(debitCards) < MaxExpiryCards
            /\ \E a \in DOMAIN accounts, n \in DebitNumbers, e \in ExpiryDates,
                  salt \in SaltChoices : NewDebitCard(a, 500, "0000", n, e, salt)
    \/ \E k \in DOMAIN cards, e \in ExpirySettings : SetExpiration(k, e)
    \/ \E k \in DOMAIN debitCards, e \in ExpirySettings : SetExpirationDebit(k, e)
    \/ \E k \in DOMAIN cards : MarkExpired(k)
    \/ \E k \in DOMAIN debitCards : MarkExpiredDebit(k)
    \/ \E k \in DOMAIN cards, b \in BOOLEAN : SetActivated(k, b)
    \/ \E k \in DOMAIN debitCards, b \in BOOLEAN : SetActivatedDebit(k, b)
    \/ \E k \in DOMAIN cards, amount \in ExpiryPayments : Charge(k, amount)
    \/ \E k \in DOMAIN cards, amount \in ExpiryPayments : ProcessPaymentCredit(k, amount)
    \/ \E k \in DOMAIN debitCards, amount \in ExpiryPayments : ProcessPaymentDebit(k, amount)

SpecExpiry == Init /\ [][NextExpiry]_vars

CreditPaymentCalled == CardCalled("charge") \/ CardCalled("processPayment")
DebitPaymentCalled ==
    last.op = "DebitCard::processPayment" /\ last.acct \in DOMAIN last.preDebit

\* C36: on a card whose isExpired() is true, CreditCard::charge,
\* CreditCard::processPayment and DebitCard::processPayment return false and
\* change no balance.
C36_NoPaymentOnExpiredCard ==
    /\ (CreditPaymentCalled /\ isExpired(CardBefore)) =>
            /\ last.res = "false"
            /\ cards = last.preCards
    /\ (DebitPaymentCalled /\ isExpired(last.preDebit[last.acct])) =>
            /\ last.res = "false"
            /\ accounts = last.pre

\* The test the payments do make: no payment on a card that is not activated
C36_NoPaymentOnDeactivatedCard ==
    /\ (CreditPaymentCalled /\ ~CardBefore.isActivated_) =>
            /\ last.res = "false"
            /\ cards = last.preCards
    /\ (DebitPaymentCalled /\ ~last.preDebit[last.acct].isActivated_) =>
            /\ last.res = "false"
            /\ accounts = last.pre

\* ------------------------------------------------------------------------
\* Specification of a ledger that starts with the account: a SavingAccount
\* with any initial balance and rate, or a CheckingAccount with the initial
\* balance 0, then deposits, withdrawals, interest and fees and nothing else
\* ------------------------------------------------------------------------
MaxBookTx == 4
BookFees == {0, 10}
BookWaivers == {700}

CanBook == accounts # << >> /\ Len(accounts[1].transactions_) < MaxBookTx

NextBook ==
    \/ NoAccount /\ \E b \in LedgerInitialBalances, r \in LedgerRates : NewSaving(b, r)
    \/ NoAccount /\ \E f \in BookFees, w \in BookWaivers : NewChecking(0, f, w, 0)
    \/ CanBook /\ \E amount \in LedgerDeposits : Deposit(1, amount)
    \/ CanBook /\ \E amount \in LedgerWithdrawals : Withdraw(1, amount)
    \/ CanBook /\ ApplyInterest(1)
    \/ CanBook /\ ApplyMonthlyInterest(1)
    \/ CanBook /\ ApplyMonthlyMaintenanceFee(1)

SpecBook == Init /\ [][NextBook]_vars

\* The sum of the amounts of the entries of the ledger whose type is in types
RECURSIVE SumOfTypes(_, _)
SumOfTypes(transactions, types) ==
    IF transactions = << >> THEN 0
    ELSE (IF Head(transactions).type \in types THEN Head(transactions).amount ELSE 0)
            + SumOfTypes(Tail(transactions), types)

Reconstructed(a) ==
    SumOfTypes(a.transactions_, {"DEPOSIT", "INTEREST"})
        - SumOfTypes(a.transactions_, {"WITHDRAWAL", "FEE"})

\* C37: the balance of the account is the sum of the amounts of its DEPOSIT
\* and INTEREST entries minus the sum of the amounts of its WITHDRAWAL and FEE
\* entries.
C37_LedgerReconstructsBalance ==
    \A i \in DOMAIN accounts : accounts[i].account_balance_ = Reconstructed(accounts[i])

\* The same with the entries that stand for a movement alone: DEPOSIT and
\* WITHDRAWAL
C37_MovementsReconstructBalance ==
    \A i \in DOMAIN accounts :
        accounts[i].account_balance_
            = SumOfTypes(accounts[i].transactions_, {"DEPOSIT"})
                - SumOfTypes(accounts[i].transactions_, {"WITHDRAWAL"})

\* ------------------------------------------------------------------------
\* Termination of a withdrawal through backup links
\* ------------------------------------------------------------------------
\* C38: CheckingAccount::applyWithdraw terminates for every amount and every
\* configuration of the backup links, an account linked to itself and two
\* accounts linked to each other included: no call recurses without end.
C38_WithdrawTerminates ==
    last.op = "applyWithdraw" => last.res # "stack_overflow"

\* Every checking account had funds or overdraft left before the call
AllHadFunds == \A i \in DOMAIN last.pre :
                    last.pre[i].kind = "CHECKING" => available(last.pre[i]) > 0

\* The call ends where each account of the chain can give something
C38_WithdrawWithFundsTerminates ==
    (last.op = "applyWithdraw" /\ AllHadFunds) => last.res # "stack_overflow"

\* ------------------------------------------------------------------------
\* Services::deleteCustomers
\* ------------------------------------------------------------------------
\* The entries of customers_ that std::find_if accepts in Services::deleteCustomers
FoundCustomer(CustomersToDelete) ==
    { k \in DOMAIN customers_ : customers_[k] = CustomersToDelete }

\* Services::deleteCustomers: the customer registry and the value returned
deleteCustomers(CustomersToDelete) ==
    IF CustomersToDelete = 0 THEN [customers_ |-> customers_, res |-> "false"]
    ELSE IF FoundCustomer(CustomersToDelete) # {}
        THEN [customers_ |-> erase(customers_,
                                CHOOSE k \in FoundCustomer(CustomersToDelete) :
                                    \A j \in FoundCustomer(CustomersToDelete) : k <= j),
              res |-> "true"]
    ELSE [customers_ |-> customers_, res |-> "false"]

DeleteCustomers(CustomersToDelete) ==
    LET r == deleteCustomers(CustomersToDelete)
    IN  ServiceResult("deleteCustomers", CustomersToDelete, 0, r.res,
                      profiles, r.customers_, all_accounts_)

\* ------------------------------------------------------------------------
\* Specification of deleting customers: customers are constructed and
\* registered, registered customers open accounts, customers are deleted and
\* the monthly sweeps run
\* ------------------------------------------------------------------------
MaxDeleteCustomers == 2
MaxDeleteRegistered == 2
MaxDeleteAccounts == 2
MaxDeleteTx == 3

NextDelete ==
    \/ Len(profiles) < MaxDeleteCustomers
            /\ \E n \in CloseNames, a \in LoginAges : NewCustomer(n, a)
    \/ Len(customers_) < MaxDeleteRegistered /\ \E l \in CustomerLists : AddCustomers(l)
    \/ Len(accounts) < MaxDeleteAccounts
            /\ \E c \in Registered : OpenSaving(c, 600, 12)
    \/ Len(accounts) < MaxDeleteAccounts
            /\ \E c \in Registered : OpenChecking(c, 50, 10, 700, 500, 100)
    \/ \E c \in {0} \cup DOMAIN profiles : DeleteCustomers(c)
    \/ LedgerEntries(accounts) < MaxDeleteTx /\ ProcessMonthlyFees
    \/ LedgerEntries(accounts) < MaxDeleteTx /\ ApplyMonthlyInterestToAll

SpecDelete == Init /\ [][NextDelete]_vars

Deleted == last.op = "deleteCustomers" /\ last.res = "true"
OwnedBy(c) == { profiles[c].account_[j] : j \in DOMAIN profiles[c].account_ }
SweepCalled == last.op \in {"processMonthlyFees", "applyMonthlyInterestToAll"}

\* C39: after Services::deleteCustomers(c) has returned true, c is not in the
\* customer registry and no account of c is in the global account registry,
\* so that a sweep changes only accounts of registered customers.
C39_DeletedCustomerLeavesNothing ==
    /\ Deleted =>
          /\ \A k \in DOMAIN customers_ : customers_[k] # last.acct
          /\ \A i \in OwnedBy(last.acct) : ~InRegistry(i)
    /\ SweepCalled =>
          \A i \in DOMAIN accounts :
              accounts[i] # last.pre[i] => \E c \in Registered : i \in OwnedBy(c)

\* What deleteCustomers does: the first entry of the registry that is c goes,
\* the other entries, the customers and the account registry stay
C39_OneEntryErased ==
    Deleted =>
        /\ Len(customers_) = Len(last.preCustomers) - 1
        /\ \E k \in DOMAIN last.preCustomers :
              /\ last.preCustomers[k] = last.acct
              /\ \A j \in 1 .. (k - 1) : last.preCustomers[j] # last.acct
              /\ customers_ = erase(last.preCustomers, k)
        /\ all_accounts_ = last.preAll
        /\ profiles = last.preProfiles
        /\ accounts = last.pre

\* ------------------------------------------------------------------------
\* ConnectionPool::initialize with connections that cannot be created
\* ------------------------------------------------------------------------
\* What one round of the loop of initialize meets: "refused" (driver_->connect
\* throws, and createNewConnection throws std::runtime_error), "valid" (the
\* connection passes validateConnection), "revalidated" (it fails, and passes
\* in the returnConnection its deleter calls), "replaced" (it fails twice and
\* returnConnection creates another), "lost" (it fails twice and the other
\* one cannot be created)
ConnectOutcomes == {"refused", "valid", "revalidated", "replaced", "lost"}

\* returnConnection of a connection that fails validateConnection where
\* createNewConnection throws: currentSize_-- in the handler, as in the
\* branch that creates nothing
returnConnectionLost(p) ==
    [p EXCEPT !.notified = p.pc \in {"wait", "waitAgain"}, !.currentSize_ = @ - 1]

\* The loop of ConnectionPool::initialize from round i on: the pool, and
\* whether the loop ran to its end or the std::runtime_error of
\* createNewConnection left it (the handler of the loop catches
\* sql::SQLException alone)
RECURSIVE initializeConnecting(_, _, _)
initializeConnecting(p, i, outcomes) ==
    IF i > p.poolSize THEN [pool |-> p, res |-> "done"]
    ELSE IF outcomes[i] = "refused" THEN [pool |-> p, res |-> "runtime_error"]
    ELSE IF outcomes[i] = "lost"
        THEN initializeConnecting(returnConnectionLost(p), i + 1, outcomes)
    ELSE initializeConnecting(initializeOne(p, outcomes[i] = "valid",
                                            outcomes[i] = "revalidated"),
                              i + 1, outcomes)

\* ConnectionPool::initialize(config): complete is whether sslCA, sslCert and
\* sslKey are all given
InitializeConfig(poolSize, maxWaitMs, enableSSL, complete, outcomes) ==
    LET arg == [poolSize |-> poolSize, enableSSL |-> enableSSL, complete |-> complete,
                outcomes |-> outcomes]
    IN  /\ pool.pc # "destroyed"
        /\ IF pool.driver_ \/ pool.running_
              THEN PoolResult("initialize", arg, "logic_error", pool)
           ELSE IF poolSize = 0
              THEN PoolResult("initialize", arg, "invalid_argument", pool)
           ELSE IF enableSSL /\ ~complete
              THEN PoolResult("initialize", arg, "invalid_argument", pool)
           ELSE LET made == initializeConnecting([pool EXCEPT !.poolSize = poolSize,
                                                              !.maxWaitMs = maxWaitMs,
                                                              !.driver_ = TRUE],
                                                 1, outcomes)
                    started == [made.pool EXCEPT !.running_ = TRUE]
                IN  IF made.res = "runtime_error"
                       THEN PoolResult("initialize", arg, "runtime_error", made.pool)
                    ELSE PoolResult("initialize", arg,
                                    IF started.pool_ = << >> THEN "runtime_error" ELSE "void",
                                    started)

\* ------------------------------------------------------------------------
\* Specification of initializing the pool: initialize is called with any
\* configuration and any fate of the connections, again and again
\* ------------------------------------------------------------------------
ConfiguredSizes == {0, 1, 2}

NextConfigure ==
    \E n \in ConfiguredSizes, ssl \in BOOLEAN, complete \in BOOLEAN :
        \E outcomes \in [1 .. n -> ConnectOutcomes] :
            InitializeConfig(n, 2, ssl, complete, outcomes)

SpecConfigure == Init /\ [][NextConfigure]_vars

InitializeFailed ==
    /\ last.op = "initialize"
    /\ last.res \in {"invalid_argument", "runtime_error"}

\* C40: a failed ConnectionPool::initialize leaves the pool uninitialized:
\* no maintenance thread runs, and a later initialize is not refused as
\* already initialized.
C40_FailedInitializeLeavesPoolUninitialized ==
    InitializeFailed => (~pool.running_ /\ ~pool.driver_)

\* The failures found before anything is set: a pool size of 0 and
\* incomplete TLS settings
C40_RefusedConfigurationLeavesPoolUninitialized ==
    (last.op = "initialize" /\ last.res = "invalid_argument")
        => (~pool.running_ /\ ~pool.driver_ /\ pool.pool_ = << >>)

\* ------------------------------------------------------------------------
\* Every call of the model
\* ------------------------------------------------------------------------
Next ==
    \/ NextNumbering
    \/ NextLedger
    \/ NextCycle
    \/ NextOverdraft
    \/ NextCredit
    \/ NextGenerator
    \/ NextPin
    \/ NextLogin
    \/ NextClose
    \/ NextTransaction
    \/ NextSweep
    \/ NextOpen
    \/ NextReplace
    \/ NextPool
    \/ NextGuard
    \/ NextFields
    \/ NextPoolHealthy
    \/ NextRefusal
    \/ NextStore
    \/ NextJournal
    \/ NextIssue
    \/ NextWallet
    \/ NextExpiry
    \/ NextBook
    \/ NextDelete
    \/ NextConfigure

Spec == Init /\ [][Next]_vars

====
